---- MODULE Spec2Model ----
(***************************************************************************)
(* Zoning copilot: the retrieval-augmented fact-extraction pipeline.       *)
(*                                                                         *)
(*   app/extractors.py   extract_facts                                     *)
(*   app/api_backup.py   on_startup, zoning_snapshot,                      *)
(*                       zoning_envelope_calc, go_no_go                    *)
(*   app/zoning_rag.py   build_or_load_vectordb, get_retriever             *)
(*                                                                         *)
(* Conventions of the model                                                *)
(*  - A Python str is a sequence of characters, each a one-letter TLA+     *)
(*    string; schema keys and prose words are written as a single          *)
(*    multi-letter "character" (<<"raw">>) where their spelling plays no   *)
(*    part.                                                                *)
(*  - The text the generative model returns is a sequence of lexemes       *)
(*    (punctuation, string literal, number literal, bare word); white      *)
(*    space between lexemes is what the lexeme boundaries stand for.       *)
(*  - A Python float is an exact rational n/d in lowest terms; rounding    *)
(*    of binary floating point is not modelled.                            *)
(***************************************************************************)
EXTENDS Integers, Sequences, FiniteSets, TLC

VARIABLES
    req,      \* the request body of the handler under way
    out,      \* what llm.invoke returned for this request
    arg,      \* the value handed to the coercion helpers num / n
    facts,    \* what extract_facts returned
    coerced,  \* what num and n returned for arg
    resp,     \* the HTTP response of the handler
    pc,       \* "ready" before the operation ran, "done" after
    store,    \* the directory vectorstore/: its marker file and the collection "zoning"
    ollama,   \* the local model server: which calls fail, how many generations ran
    docs,     \* what the retriever returned to the handler
    corpus,   \* the files under data/zoning_pdfs and zoning_docs
    runs,     \* how many server startups and index builds have run
    chunking, \* a text handed to the splitter, and the chunks it gave
    calls,    \* the frames of the handler invocations that run side by side
    gis,      \* what the geocoder and the map services answer for the address
    lookups,  \* the lookups analyze_property has issued, in their order
    prompt    \* what the handler handed to llm.invoke for its analysis

vars ==
    <<req, out, arg, facts, coerced, resp, pc, store, ollama, docs, corpus, runs, chunking,
      calls, gis, lookups, prompt>>

(***************************************************************************)
(* Bounds of the model.                                                    *)
(***************************************************************************)
MaxStrLen == 4      \* longest free-text fact value enumerated exhaustively
MaxToks == 4        \* longest model output enumerated exhaustively (lexemes)
MaxUses == 1        \* longest use list of a fact record
MaxTextLen == 7     \* longest document text handed to the splitter (characters)
MaxBuilds == 2      \* most calls of build_or_load_vectordb in a run
MaxStartups == 3    \* most server startups in a run
MaxCalls == 2       \* handler invocations that run side by side

(***************************************************************************)
(* Python floats as exact rationals.                                       *)
(***************************************************************************)
Abs(x) == IF x < 0 THEN -x ELSE x

RECURSIVE Gcd(_, _)
Gcd(a, b) == IF b = 0 THEN a ELSE Gcd(b, a % b)

Rat(n, d) == LET g == Gcd(Abs(n), d) IN [n |-> n \div g, d |-> d \div g]

RECURSIVE Pow10(_)
Pow10(k) == IF k = 0 THEN 1 ELSE 10 * Pow10(k - 1)

\* None, and a float, as one shape
PyNone == [some |-> FALSE, n |-> 0, d |-> 1]
Float(r) == [some |-> TRUE, n |-> r.n, d |-> r.d]
FloatOf(k) == [some |-> TRUE, n |-> k, d |-> 1]

\* truth value of "x" in "x or 0.0", "if x": None and 0.0 are false (nan, d = 0, is true)
Truthy(x) == x.some /\ (x.n # 0 \/ x.d = 0)

FAdd(a, b) == Float(Rat(a.n * b.d + b.n * a.d, a.d * b.d))
FSub(a, b) == Float(Rat(a.n * b.d - b.n * a.d, a.d * b.d))
FMul(a, b) == Float(Rat(a.n * b.n, a.d * b.d))
FDivInt(a, k) == Float(Rat(a.n, a.d * k))
FLe(a, b) == a.n * b.d <= b.n * a.d
FLt(a, b) == a.n * b.d < b.n * a.d
\* Python max(a, b) / min(a, b): the first argument unless the second beats it
FMax(a, b) == IF FLt(a, b) THEN b ELSE a
FMin(a, b) == IF FLt(b, a) THEN b ELSE a
\* int(a // k)
FFloorDivInt(a, k) == a.n \div (a.d * k)

(***************************************************************************)
(* Python str.                                                             *)
(***************************************************************************)
Digits == {"0", "1", "2", "3", "4", "5", "6", "7", "8", "9"}

DigitVal(c) ==
    CASE c = "0" -> 0 [] c = "1" -> 1 [] c = "2" -> 2 [] c = "3" -> 3
      [] c = "4" -> 4 [] c = "5" -> 5 [] c = "6" -> 6 [] c = "7" -> 7
      [] c = "8" -> 8 [] c = "9" -> 9

IsDigit(c) == c \in Digits

\* value of a run of decimal digits
RECURSIVE DigitsVal(_)
DigitsVal(s) ==
    IF s = <<>> THEN 0
    ELSE 10 * DigitsVal(SubSeq(s, 1, Len(s) - 1)) + DigitVal(s[Len(s)])

AllDigits(s) == \A i \in 1..Len(s) : IsDigit(s[i])

\* str.lower(), character by character
LowerChar(c) ==
    CASE c = "A" -> "a" [] c = "B" -> "b" [] c = "C" -> "c" [] c = "R" -> "r"
      [] OTHER -> c

Lower(s) == [i \in 1..Len(s) |-> LowerChar(s[i])]

\* Python "a in b" on two str: a is a contiguous substring of b
IsSubstring(a, b) ==
    \E i \in 0..(Len(b) - Len(a)) : SubSeq(b, i + 1, i + Len(a)) = a

\* end of the run of digits that starts at position i of s
RECURSIVE DigitRunEnd(_, _)
DigitRunEnd(s, i) ==
    IF i < Len(s) /\ IsDigit(s[i + 1]) THEN DigitRunEnd(s, i + 1) ELSE i

\* the decimal the characters ip (integer part) and fp (fraction digits) spell
Decimal(ip, fp) == Rat(DigitsVal(ip) * Pow10(Len(fp)) + DigitsVal(fp), Pow10(Len(fp)))

(***************************************************************************)
(* Python values as json.loads builds them.  One record shape for all:     *)
(*   t   "null" "bool" "int" "float" "nan" "str" "list" "dict"             *)
(*   n/d the number (bool: 1 or 0)      s   the characters of a str        *)
(*   xs  the items of a list            ks  the keys of a dict, in         *)
(*   m   the dict as a function             insertion order                *)
(***************************************************************************)
JNull == [t |-> "null", n |-> 0, d |-> 1, s |-> <<>>, xs |-> <<>>, ks |-> <<>>, m |-> <<>>]
JBool(b) == [JNull EXCEPT !.t = "bool", !.n = IF b THEN 1 ELSE 0]
JInt(k) == [JNull EXCEPT !.t = "int", !.n = k]
JFloat(r) == [JNull EXCEPT !.t = "float", !.n = r.n, !.d = r.d]
JNaN == [JNull EXCEPT !.t = "nan"]
JStr(chars) == [JNull EXCEPT !.t = "str", !.s = chars]
JList(items) == [JNull EXCEPT !.t = "list", !.xs = items]
JDict(keys, map) == [JNull EXCEPT !.t = "dict", !.ks = keys, !.m = map]

IsDict(v) == v.t = "dict"
HasKey(v, key) == IsDict(v) /\ key \in DOMAIN v.m
\* dict.get(key): None for a missing key; a JSON null is None as well
Get(v, key) == IF key \in DOMAIN v.m THEN v.m[key] ELSE JNull

\* a schema key, a word of prose: one "character"
K(name) == <<name>>

(***************************************************************************)
(* Lexemes of the model's output.                                          *)
(***************************************************************************)
P(c) == [k |-> "p", x |-> <<c>>]        \* punctuation { } [ ] : ,
S(chars) == [k |-> "s", x |-> chars]    \* a double-quoted string literal
N(chars) == [k |-> "n", x |-> chars]    \* a run of sign, digits and dots
W(chars) == [k |-> "w", x |-> chars]    \* any other bare word

FirstIndex(s, c) ==
    IF \E i \in 1..Len(s) : s[i] = c
    THEN CHOOSE i \in 1..Len(s) : s[i] = c /\ \A j \in 1..(i - 1) : s[j] # c
    ELSE 0

\* the pieces of a number literal: sign, integer part, fraction digits
NumParts(x) ==
    LET neg == Len(x) > 0 /\ x[1] = "-"
        body == IF neg THEN SubSeq(x, 2, Len(x)) ELSE x
        dot == FirstIndex(body, ".")
    IN  [neg |-> neg,
         ip |-> IF dot = 0 THEN body ELSE SubSeq(body, 1, dot - 1),
         hasdot |-> dot # 0,
         fp |-> IF dot = 0 THEN <<>> ELSE SubSeq(body, dot + 1, Len(body))]

\* json.scanner NUMBER_RE, (-?(?:0|[1-9]\d*))(\.\d+)?, matching the whole lexeme
\* (a lexeme it matches in part only leaves "extra data", a decode error)
IsJsonNumber(x) ==
    LET q == NumParts(x) IN
        /\ q.ip # <<>> /\ AllDigits(q.ip)
        /\ (Len(q.ip) > 1 => q.ip[1] # "0")
        /\ (q.hasdot => q.fp # <<>> /\ AllDigits(q.fp))

\* int for an integer literal, float for one with a fraction
JsonNumber(x) ==
    LET q == NumParts(x)
        r == Decimal(q.ip, q.fp)
        sg == IF q.neg THEN -1 ELSE 1
    IN  IF q.hasdot THEN JFloat([n |-> sg * r.n, d |-> r.d]) ELSE JInt(sg * r.n)

(***************************************************************************)
(* json.loads: a recursive-descent parse of the lexemes.  A result is      *)
(* [ok, v, i]: whether a value was decoded, the value, the next position.  *)
(***************************************************************************)
ParseFail == [ok |-> FALSE, v |-> JNull, i |-> 0]
Parsed(v, i) == [ok |-> TRUE, v |-> v, i |-> i]

IsP(ts, i, c) == i <= Len(ts) /\ ts[i] = P(c)

RECURSIVE ParseValue(_, _), ParseItems(_, _, _), ParseMembers(_, _, _, _)

ParseValue(ts, i) ==
    IF i > Len(ts) THEN ParseFail
    ELSE LET tk == ts[i] IN
        CASE tk.k = "s" -> Parsed(JStr(tk.x), i + 1)
          [] tk.k = "n" ->
                IF IsJsonNumber(tk.x) THEN Parsed(JsonNumber(tk.x), i + 1) ELSE ParseFail
          [] tk.k = "w" ->
                CASE tk.x = K("null") -> Parsed(JNull, i + 1)
                  [] tk.x = K("true") -> Parsed(JBool(TRUE), i + 1)
                  [] tk.x = K("false") -> Parsed(JBool(FALSE), i + 1)
                  \* json.loads accepts the constant NaN unless told otherwise
                  [] tk.x = K("NaN") -> Parsed(JNaN, i + 1)
                  [] OTHER -> ParseFail
          [] tk = P("[") ->
                IF IsP(ts, i + 1, "]") THEN Parsed(JList(<<>>), i + 2)
                ELSE ParseItems(ts, i + 1, <<>>)
          [] tk = P("{") ->
                IF IsP(ts, i + 1, "}") THEN Parsed(JDict(<<>>, <<>>), i + 2)
                ELSE ParseMembers(ts, i + 1, <<>>, <<>>)
          [] OTHER -> ParseFail

\* value (, value)* ]
ParseItems(ts, i, acc) ==
    LET r == ParseValue(ts, i) IN
        IF ~r.ok THEN ParseFail
        ELSE IF IsP(ts, r.i, ",") THEN ParseItems(ts, r.i + 1, Append(acc, r.v))
        ELSE IF IsP(ts, r.i, "]") THEN Parsed(JList(Append(acc, r.v)), r.i + 1)
        ELSE ParseFail

\* string : value (, string : value)* }    a repeated key keeps its place and
\* takes the later value
ParseMembers(ts, i, keys, map) ==
    IF ~(i <= Len(ts) /\ ts[i].k = "s" /\ IsP(ts, i + 1, ":")) THEN ParseFail
    ELSE LET key == ts[i].x
             r == ParseValue(ts, i + 2)
             keys2 == IF key \in DOMAIN map THEN keys ELSE Append(keys, key)
             map2 == (key :> r.v) @@ map
         IN  IF ~r.ok THEN ParseFail
             ELSE IF IsP(ts, r.i, ",") THEN ParseMembers(ts, r.i + 1, keys2, map2)
             ELSE IF IsP(ts, r.i, "}") THEN Parsed(JDict(keys2, map2), r.i + 1)
             ELSE ParseFail

\* json.loads(out): the whole text must be one value
JsonLoads(ts) ==
    LET r == ParseValue(ts, 1) IN
        IF r.ok /\ r.i = Len(ts) + 1 THEN r ELSE ParseFail

(***************************************************************************)
(* app/extractors.py                                                       *)
(***************************************************************************)
RawKey == K("raw")

SchemaKeys ==
    { K(f) : f \in {"zoning_district", "district_name", "overlay_districts",
        "max_height_ft", "max_stories", "front_setback_ft", "side_setback_ft",
        "rear_setback_ft", "lot_coverage_max", "floor_area_ratio", "parking_ratio",
        "parking_location", "permitted_uses", "conditional_uses", "prohibited_uses",
        "design_standards", "landscaping_requirements", "signage_restrictions",
        "required_permits", "approval_timeline", "public_hearing_required",
        "development_fees", "infrastructure_requirements", "variance_potential",
        "rezoning_options", "development_challenges"} }

\* RawRecord with the schema's required field filled in beside the raw text
RawRecord_WithDistrict(text) ==
    JDict(<<RawKey, K("zoning_district")>>,
          (RawKey :> JStr(text)) @@ (K("zoning_district") :> JStr(<<>>)))

\* {"raw": out}: the text the model returned, verbatim
RawRecord(text) == JDict(<<RawKey>>, RawKey :> JStr(text))

\* try: return json.loads(out)   except Exception: return {"raw": out}
extract_facts(text) ==
    LET r == JsonLoads(text) IN IF r.ok THEN r.v ELSE RawRecord(text)

\* the model server with every call going through
Healthy == [embed_fails |-> FALSE, llm_fails |-> FALSE, llm_calls |-> 0]

Raised == [raised |-> TRUE, v |-> JNull]
Returned(v) == [raised |-> FALSE, v |-> v]

\* llm.invoke answered by the fallback record when it raises
ExtractFactsCall_Fallback(o, text) ==
    IF o.llm_fails THEN Returned(RawRecord(<<>>)) ELSE Returned(extract_facts(text))

\* extract_facts(context_snippets) as a whole: llm.invoke(prompt) stands
\* before the try, so what it raises leaves extract_facts; text is what it
\* returns otherwise
ExtractFactsCall(o, text) ==
    IF o.llm_fails THEN Raised ELSE Returned(extract_facts(text))

\* the model server after extract_facts ran: one generation more
Generated(o) == [o EXCEPT !.llm_calls = @ + 1]

(***************************************************************************)
(* str(value), as num hands it to the regular expression.                  *)
(***************************************************************************)
DigitChar(k) ==
    CASE k = 0 -> "0" [] k = 1 -> "1" [] k = 2 -> "2" [] k = 3 -> "3"
      [] k = 4 -> "4" [] k = 5 -> "5" [] k = 6 -> "6" [] k = 7 -> "7"
      [] k = 8 -> "8" [] k = 9 -> "9"

RECURSIVE IntChars(_)
IntChars(k) ==
    IF k < 10 THEN <<DigitChar(k)>> ELSE Append(IntChars(k \div 10), DigitChar(k % 10))

\* the last w digits of k, zero padded
RECURSIVE PadChars(_, _)
PadChars(k, w) ==
    IF w = 0 THEN <<>> ELSE Append(PadChars(k \div 10, w - 1), DigitChar(k % 10))

\* number of fraction digits of n/d (d divides a power of ten)
RECURSIVE FracLen(_, _)
FracLen(d, w) == IF Pow10(w) % d = 0 THEN w ELSE FracLen(d, w + 1)

\* repr of an int or a float: 60, -5, 60.0, 1.5
NumberChars(v) ==
    LET sign == IF v.n < 0 THEN <<"-">> ELSE <<>>
        a == Abs(v.n)
        w == FracLen(v.d, 0)
        scaled == (a * Pow10(w)) \div v.d
    IN  IF v.t = "int" THEN sign \o IntChars(a)
        ELSE sign \o IntChars(scaled \div Pow10(w)) \o <<".">> \o
             (IF w = 0 THEN <<"0">> ELSE PadChars(scaled % Pow10(w), w))

Quoted(chars) == <<"'">> \o chars \o <<"'">>

RECURSIVE Repr(_), ReprItems(_, _), ReprMembers(_, _)
Repr(v) ==
    CASE v.t = "null" -> <<"N", "o", "n", "e">>
      [] v.t = "bool" -> IF v.n = 1 THEN <<"T", "r", "u", "e">> ELSE <<"F", "a", "l", "s", "e">>
      [] v.t = "nan" -> <<"n", "a", "n">>
      [] v.t \in {"int", "float"} -> NumberChars(v)
      [] v.t = "str" -> Quoted(v.s)
      [] v.t = "list" -> <<"[">> \o ReprItems(v.xs, 1) \o <<"]">>
      [] v.t = "dict" -> <<"{">> \o ReprMembers(v, 1) \o <<"}">>

ReprItems(xs, i) ==
    IF i > Len(xs) THEN <<>>
    ELSE Repr(xs[i]) \o (IF i < Len(xs) THEN <<",", " ">> ELSE <<>>) \o ReprItems(xs, i + 1)

ReprMembers(v, i) ==
    IF i > Len(v.ks) THEN <<>>
    ELSE Quoted(v.ks[i]) \o <<":", " ">> \o Repr(v.m[v.ks[i]]) \o
         (IF i < Len(v.ks) THEN <<",", " ">> ELSE <<>>) \o ReprMembers(v, i + 1)

\* str(value): a str is itself, anything else its repr
PyStr(v) == IF v.t = "str" THEN v.s ELSE Repr(v)

(***************************************************************************)
(* The coercion helpers.                                                   *)
(***************************************************************************)
\* float('nan'): a float that is no number
NaN == [some |-> TRUE, n |-> 0, d |-> 0]

\* re.findall(r"[0-9]+(?:\.[0-9]+)?", s)[0] as a float, None when nothing matches:
\* the leftmost digit, its run, and a fraction when a dot and a digit follow
FirstNumber(s) ==
    IF ~ \E i \in 1..Len(s) : IsDigit(s[i]) THEN PyNone
    ELSE LET i == CHOOSE p \in 1..Len(s) :
                      IsDigit(s[p]) /\ \A q \in 1..(p - 1) : ~IsDigit(s[q])
             j == DigitRunEnd(s, i)
             frac == j + 2 <= Len(s) /\ s[j + 1] = "." /\ IsDigit(s[j + 2])
             e == IF frac THEN DigitRunEnd(s, j + 2) ELSE j
         IN  Float(Decimal(SubSeq(s, i, j), IF frac THEN SubSeq(s, j + 2, e) ELSE <<>>))

\* num with 0.0 where it has None
num_ZeroDefault(value) ==
    CASE value.t = "null" -> FloatOf(0)
      [] value.t \in {"bool", "int", "float"} -> Float([n |-> value.n, d |-> value.d])
      [] value.t = "nan" -> NaN
      [] OTHER -> IF FirstNumber(PyStr(value)).some
                  THEN FirstNumber(PyStr(value)) ELSE FloatOf(0)

\* zoning_envelope_calc.num
num(value) ==
    CASE value.t = "null" -> PyNone
      [] value.t \in {"bool", "int", "float"} -> Float([n |-> value.n, d |-> value.d])
      [] value.t = "nan" -> NaN
      [] OTHER -> FirstNumber(PyStr(value))

RECURSIVE LStrip(_)
LStrip(s) == IF s # <<>> /\ s[1] = " " THEN LStrip(Tail(s)) ELSE s

RECURSIVE RStrip(_)
RStrip(s) ==
    IF s # <<>> /\ s[Len(s)] = " " THEN RStrip(SubSeq(s, 1, Len(s) - 1)) ELSE s

\* float(s) for a str over digits, dot, sign, blank and letters: blanks around
\* are dropped, then [sign] digits [. [digits]] or [sign] . digits; anything
\* else raises ValueError, written None here
FloatOfStr(s) ==
    LET t == RStrip(LStrip(s))
        signed == t # <<>> /\ t[1] \in {"-", "+"}
        body == IF signed THEN Tail(t) ELSE t
        dot == FirstIndex(body, ".")
        ip == IF dot = 0 THEN body ELSE SubSeq(body, 1, dot - 1)
        fp == IF dot = 0 THEN <<>> ELSE SubSeq(body, dot + 1, Len(body))
        r == Decimal(ip, fp)
    IN  IF AllDigits(ip) /\ AllDigits(fp) /\ Len(ip) + Len(fp) > 0
        THEN Float([n |-> IF signed /\ t[1] = "-" THEN -r.n ELSE r.n, d |-> r.d])
        ELSE PyNone

\* go_no_go.n:  try: return float(x)   except Exception: return None
n(x) ==
    CASE x.t \in {"bool", "int", "float"} -> Float([n |-> x.n, d |-> x.d])
      [] x.t = "nan" -> NaN
      [] x.t = "str" -> FloatOfStr(x.s)
      [] OTHER -> PyNone

(***************************************************************************)
(* app/zoning_rag.py: get_retriever, and the retrieval of the handlers.     *)
(* A chunk of the collection is [id, source, page, text, score]: source is *)
(* the path of the file it came from, page its page number (none for a     *)
(* text file), score its similarity to the query of the request under way. *)
(***************************************************************************)
RetrieverK == 6

Page(k) == [some |-> TRUE, n |-> k]
NoPage == [some |-> FALSE, n |-> 0]

Path(dir, base) == [dir |-> dir, base |-> base]

Chunk(id, source, page, text, score) ==
    [id |-> id, source |-> source, page |-> page, text |-> text, score |-> score]

NoStore == [marker |-> FALSE, collection |-> <<>>]

\* Chroma(collection_name="zoning", persist_directory=DB_DIR, ...): the
\* client opens the store under vectorstore/ and gets the collection or
\* creates it; a store that was not there is created, with its
\* chroma.sqlite3 and an empty collection
Chroma(st) == [marker |-> TRUE, collection |-> st.collection]

get_retriever(st) == Chroma(st)

Take(xs, k) == SubSeq(xs, 1, IF Len(xs) < k THEN Len(xs) ELSE k)

\* the chunks of a collection in the order they were added
BySimilarity_AsStored(chunks) == chunks

\* the chunks of a collection, the most similar first
RECURSIVE BySimilarity(_)
BySimilarity(chunks) ==
    IF chunks = <<>> THEN <<>>
    ELSE LET best == CHOOSE i \in 1..Len(chunks) :
                         \A j \in 1..Len(chunks) : chunks[j].score <= chunks[i].score
             rest == [j \in 1..(Len(chunks) - 1) |->
                         IF j < best THEN chunks[j] ELSE chunks[j + 1]]
         IN  <<chunks[best]>> \o BySimilarity(rest)

\* retriever.get_relevant_documents(query): the k most similar chunks, or
\* all of them when the collection holds fewer
get_relevant_documents(st) == Take(BySimilarity(st.collection), RetrieverK)

\* {"source": os.path.basename(d.metadata.get("source", "unknown")),
\*  "page": d.metadata.get("page")}
Citation(d) == [source |-> d.source.base, page |-> d.page]

\* the sources list of a handler that cites docs[:k]
Sources(ds, k) == [i \in 1..Len(Take(ds, k)) |-> Citation(ds[i])]

(***************************************************************************)
(* app/zoning_rag.py: the text splitter of build_or_load_vectordb,          *)
(* RecursiveCharacterTextSplitter(chunk_size, chunk_overlap) with its       *)
(* default separators, keep_separator and strip_whitespace.  A piece and a *)
(* chunk of a text are ranges [lo, hi] of its positions: pieces that are   *)
(* joined are neighbours, so a joined chunk is a range as well.            *)
(***************************************************************************)
NL == "\n"
SP == " "

\* the configuration of the builder
chunk_size == 1500
chunk_overlap == 200
SplitterConfig == [chunk_size |-> chunk_size, chunk_overlap |-> chunk_overlap]

\* ["\n\n", "\n", " ", ""]
Separators == << <<NL, NL>>, <<NL>>, <<SP>>, <<>> >>

Range(lo, hi) == [lo |-> lo, hi |-> hi]
RangeLen(r) == r.hi - r.lo + 1
RangeText(text, r) == SubSeq(text, r.lo, r.hi)

IsWhitespace(c) == c \in {NL, SP}

\* sep stands in text at position p
MatchesAt(text, sep, p, hi) ==
    /\ p + Len(sep) - 1 <= hi
    /\ \A i \in 1..Len(sep) : text[p + i - 1] = sep[i]

\* the occurrences of sep in text[lo..hi] that re.split finds: leftmost
\* first, none overlapping the one before
RECURSIVE Occurrences(_, _, _, _)
Occurrences(text, sep, lo, hi) ==
    IF lo > hi THEN <<>>
    ELSE IF MatchesAt(text, sep, lo, hi)
         THEN <<lo>> \o Occurrences(text, sep, lo + Len(sep), hi)
         ELSE Occurrences(text, sep, lo + 1, hi)

NonEmpty(rs) == SelectSeq(rs, LAMBDA r : r.lo <= r.hi)

\* _split_text_with_regex(text, separator, keep_separator=True): the
\* characters of the text for the separator "", and otherwise the text
\* before the first occurrence followed by the pieces that start at an
\* occurrence and end before the next; empty pieces are dropped
SplitWithRegex(text, sep, lo, hi) ==
    IF sep = <<>> THEN [i \in 1..(hi - lo + 1) |-> Range(lo + i - 1, lo + i - 1)]
    ELSE LET at == Occurrences(text, sep, lo, hi)
             from(i) == IF i = 0 THEN lo ELSE at[i]
             upto(i) == IF i = Len(at) THEN hi ELSE at[i + 1] - 1
         IN  NonEmpty([i \in 1..(Len(at) + 1) |-> Range(from(i - 1), upto(i - 1))])

\* text.strip() of the range r: r without the white space at its two ends
RECURSIVE StripLeft(_, _)
StripLeft(text, r) ==
    IF r.lo <= r.hi /\ IsWhitespace(text[r.lo]) THEN StripLeft(text, Range(r.lo + 1, r.hi))
    ELSE r

RECURSIVE StripRight(_, _)
StripRight(text, r) ==
    IF r.lo <= r.hi /\ IsWhitespace(text[r.hi]) THEN StripRight(text, Range(r.lo, r.hi - 1))
    ELSE r

\* _join_docs(current_doc, ""): the joined pieces stripped, as a list of one
\* chunk, or of none when nothing but white space is left
JoinDocs(text, current_doc) ==
    IF current_doc = <<>> THEN <<>>
    ELSE NonEmpty(<<StripRight(text, StripLeft(text,
                       Range(current_doc[1].lo, current_doc[Len(current_doc)].hi)))>>)

\* PopFront that keeps nothing for the next chunk
PopFront_NoOverlap(current_doc, total, len, cfg) == [current_doc |-> <<>>, total |-> 0]

\* the while loop of _merge_splits: pieces leave current_doc from the
\* front while it holds more than the overlap or the next piece does not fit
RECURSIVE PopFront(_, _, _, _)
PopFront(current_doc, total, len, cfg) ==
    IF total > cfg.chunk_overlap \/ (total + len > cfg.chunk_size /\ total > 0)
    THEN PopFront(Tail(current_doc), total - RangeLen(Head(current_doc)), len, cfg)
    ELSE [current_doc |-> current_doc, total |-> total]

\* _merge_splits(splits, ""): the for loop from piece i on
RECURSIVE MergeFrom(_, _, _, _, _, _)
MergeFrom(text, splits, i, current_doc, total, cfg) ==
    IF i > Len(splits) THEN JoinDocs(text, current_doc)
    ELSE LET len == RangeLen(splits[i])
             full == total + len > cfg.chunk_size
             kept == IF full /\ current_doc # <<>>
                     THEN PopFront(current_doc, total, len, cfg)
                     ELSE [current_doc |-> current_doc, total |-> total]
         IN  (IF full THEN JoinDocs(text, current_doc) ELSE <<>>)
             \o MergeFrom(text, splits, i + 1, Append(kept.current_doc, splits[i]),
                          kept.total + len, cfg)

MergeSplits(text, splits, cfg) == MergeFrom(text, splits, 1, <<>>, 0, cfg)

\* the first separator that is "" or occurs in the text, with the
\* separators after it; "" leaves none
ChosenSeparator(text, separators, lo, hi) ==
    LET found == { i \in 1..Len(separators) :
                     separators[i] = <<>> \/ Occurrences(text, separators[i], lo, hi) # <<>> }
        first == CHOOSE i \in found : \A j \in found : i <= j
    IN  IF found = {} THEN [sep |-> separators[Len(separators)], rest |-> <<>>]
        ELSE IF separators[first] = <<>> THEN [sep |-> <<>>, rest |-> <<>>]
        ELSE [sep |-> separators[first],
              rest |-> SubSeq(separators, first + 1, Len(separators))]

\* _split_text(text, separators) on text[lo..hi], and its for loop over the
\* pieces from piece i on: a piece shorter than chunk_size waits in
\* good_splits to be merged, a longer one is split by the separators left,
\* or is a chunk as it is when none is left
RECURSIVE SplitText(_, _, _, _, _)
RECURSIVE SplitFrom(_, _, _, _, _, _)
SplitFrom(text, splits, i, good_splits, rest, cfg) ==
    IF i > Len(splits) THEN MergeSplits(text, good_splits, cfg)
    ELSE IF RangeLen(splits[i]) < cfg.chunk_size
         THEN SplitFrom(text, splits, i + 1, Append(good_splits, splits[i]), rest, cfg)
         ELSE MergeSplits(text, good_splits, cfg)
              \o (IF rest = <<>> THEN <<splits[i]>>
                  ELSE SplitText(text, splits[i].lo, splits[i].hi, rest, cfg))
              \o SplitFrom(text, splits, i + 1, <<>>, rest, cfg)

SplitText(text, lo, hi, separators, cfg) ==
    LET chosen == ChosenSeparator(text, separators, lo, hi)
    IN  SplitFrom(text, SplitWithRegex(text, chosen.sep, lo, hi), 1, <<>>, chosen.rest, cfg)

\* splitter.split_text(text): the chunks of a text, as ranges, in order
split_text(text, cfg) == SplitText(text, 1, Len(text), Separators, cfg)

(***************************************************************************)
(* app/zoning_rag.py: build_or_load_vectordb, and on_startup of            *)
(* app/api_backup.py.  A file of the corpus is [path, kind, readable,      *)
(* pages]: the text of each page of a PDF file, the one text of a text     *)
(* file; a loader raises on a file that is not readable.                   *)
(***************************************************************************)
DOC_DIR == "data/zoning_pdfs"
TXT_DIR == "zoning_docs"

File(path, kind, readable, pages) ==
    [path |-> path, kind |-> kind, readable |-> readable, pages |-> pages]

Document(source, page, text) == [source |-> source, page |-> page, text |-> text]

\* PyPDFLoader(path).load(): a document per page, pages counted from 0
PyPDFLoader(f) == [i \in 1..Len(f.pages) |-> Document(f.path, Page(i - 1), f.pages[i])]

\* TextLoader(path).load(): the file as one document, with no page
TextLoader(f) == <<Document(f.path, NoPage, f.pages[1])>>

RECURSIVE Concat(_)
Concat(seqs) == IF seqs = <<>> THEN <<>> ELSE Head(seqs) \o Concat(Tail(seqs))

\* DirectoryLoader(dir, glob, loader_cls).load(): the documents of the
\* files of that kind, in [raised, docs]; silent_errors is off, so the
\* first file its loader fails on ends the load with that error
DirectoryLoader(corp, kind) ==
    LET files == SelectSeq(corp, LAMBDA f : f.kind = kind)
    IN  IF \E i \in 1..Len(files) : ~files[i].readable
        THEN [raised |-> TRUE, docs |-> <<>>]
        ELSE [raised |-> FALSE,
              docs |-> Concat([i \in 1..Len(files) |->
                          IF kind = "pdf" THEN PyPDFLoader(files[i])
                          ELSE TextLoader(files[i])])]

\* splitter.split_documents(docs): the chunks of each document in turn,
\* each with the source and page of its document
split_documents(ds, cfg) ==
    Concat([i \in 1..Len(ds) |->
        LET rs == split_text(ds[i].text, cfg)
        IN  [j \in 1..Len(rs) |->
                Document(ds[i].source, ds[i].page, RangeText(ds[i].text, rs[j]))]])

\* the documents build_or_load_vectordb loads, in [raised, docs]: the PDF
\* load stands outside any try; the try around the text load turns a
\* failure into no text document at all
LoadCorpus(corp) ==
    LET pdf == DirectoryLoader(corp, "pdf")
        txt == DirectoryLoader(corp, "txt")
    IN  [raised |-> pdf.raised,
         docs |-> pdf.docs \o (IF txt.raised THEN <<>> ELSE txt.docs)]

\* Chroma.from_documents(chunks, emb, collection_name="zoning",
\* persist_directory=DB_DIR): the store is opened as by Chroma(...), the
\* chunks are embedded by the model server and added under fresh ids to
\* what the collection holds
from_documents(st, chunks, o) ==
    LET opened == Chroma(st)
        held == Len(opened.collection)
    IN  IF chunks # <<>> /\ o.embed_fails THEN [raised |-> TRUE, store |-> opened]
        ELSE [raised |-> FALSE,
              store |-> [opened EXCEPT !.collection =
                            @ \o [i \in 1..Len(chunks) |->
                                     Chunk(held + i, chunks[i].source, chunks[i].page,
                                           chunks[i].text, 0)]]]

\* build_or_load_vectordb(), in [raised, store]
build_or_load_vectordb(st, corp, o) ==
    LET loaded == LoadCorpus(corp)
    IN  IF loaded.raised THEN [raised |-> TRUE, store |-> st]
        ELSE from_documents(st, split_documents(loaded.docs, SplitterConfig), o)

\* on_startup that builds whether or not the marker file is there
on_startup_Always(st, corp, o) ==
    LET b == build_or_load_vectordb(st, corp, o)
    IN  [built |-> TRUE, raised |-> b.raised, store |-> b.store]

\* on_startup(): the build runs when vectorstore/chroma.sqlite3 is missing
on_startup(st, corp, o) ==
    IF ~st.marker
    THEN LET b == build_or_load_vectordb(st, corp, o)
         IN  [built |-> TRUE, raised |-> b.raised, store |-> b.store]
    ELSE [built |-> FALSE, raised |-> FALSE, store |-> st]

(***************************************************************************)
(* app/api_backup.py: zoning_envelope_calc                                 *)
(***************************************************************************)
PercentDivisor == 100
FeetPerStory == 12
Zero == FloatOf(0)
\* the literal 1.5
CoverageThreshold == [some |-> TRUE, n |-> 3, d |-> 2]

\* num(facts.get(key)) or 0.0
SetbackOrZero(f, key) ==
    LET v == num(Get(f, key)) IN IF Truthy(v) THEN v ELSE Zero

front(f) == SetbackOrZero(f, K("front_setback_ft"))
side(f) == SetbackOrZero(f, K("side_setback_ft"))
rear(f) == SetbackOrZero(f, K("rear_setback_ft"))
max_height_ft(f) == num(Get(f, K("max_height_ft")))
max_stories(f) == num(Get(f, K("max_stories")))
far(f) == num(Get(f, K("floor_area_ratio")))

\* NormalizeCoverage with >= 1.5 for > 1.5
NormalizeCoverage_Inclusive(c) ==
    IF Truthy(c) /\ FLe(CoverageThreshold, c) THEN FDivInt(c, PercentDivisor) ELSE c

\* if lot_coverage_max and lot_coverage_max > 1.5: lot_coverage_max / 100.0
NormalizeCoverage(c) ==
    IF Truthy(c) /\ FLt(CoverageThreshold, c) THEN FDivInt(c, PercentDivisor) ELSE c

lot_coverage_max(f) == NormalizeCoverage(num(Get(f, K("lot_coverage_max"))))

lot_area(w, d) == FMul(w, d)
\* buildable_width with the side setback taken off once
buildable_width_OneSide(w, f) == FMax(FSub(w, side(f)), Zero)

buildable_width(w, f) == FMax(FSub(w, FMul(FloatOf(2), side(f))), Zero)
buildable_depth(d, f) == FMax(FSub(d, FAdd(front(f), rear(f))), Zero)
geometric_footprint(w, d, f) ==
    FMax(FMul(buildable_width(w, f), buildable_depth(d, f)), Zero)

\* CoverageCapOf with "lot_area * (lot_coverage_max or 0)"
CoverageCapOf_ZeroDefault(area, cov) == IF Truthy(cov) THEN FMul(area, cov) ELSE Zero

\* lot_area * lot_coverage_max if lot_coverage_max else None
CoverageCapOf(area, cov) == IF Truthy(cov) THEN FMul(area, cov) ELSE PyNone

coverage_cap(w, d, f) == CoverageCapOf(lot_area(w, d), lot_coverage_max(f))

\* min(geometric_footprint, coverage_cap) if coverage_cap else geometric_footprint
MaxFootprintOf(geo, cap) == IF Truthy(cap) THEN FMin(geo, cap) ELSE geo

max_footprint(w, d, f) == MaxFootprintOf(geometric_footprint(w, d, f), coverage_cap(w, d, f))

\* (far * lot_area) if far else None
max_floor_area_by_far(w, d, f) ==
    IF Truthy(far(f)) THEN FMul(far(f), lot_area(w, d)) ELSE PyNone

\* int(max_height_ft // 12) if max_height_ft else None
est_max_stories_from_height(f) ==
    IF Truthy(max_height_ft(f))
    THEN FloatOf(FFloorDivInt(max_height_ft(f), FeetPerStory)) ELSE PyNone

NoResponse == [status |-> 0]
\* raise HTTPException(status_code=500, ...), or an exception no handler catches
ServerError(detail) == [status |-> 500, detail |-> detail]

\* the handler from extract_facts on; facts.get raises when facts is no dict
EnvelopeDocs == 5

zoning_envelope_calc(r, f, ds) ==
    LET w == r.lot_width_ft
        d == r.lot_depth_ft
    IN  IF ~IsDict(f) THEN ServerError("Envelope calc failed")
        ELSE [status |-> 200,
              lot |-> [width_ft |-> w, depth_ft |-> d, area_sqft |-> lot_area(w, d)],
              setbacks_ft |-> [front |-> front(f), side |-> side(f), rear |-> rear(f)],
              buildable_area_sqft |->
                  [geometric_footprint |-> geometric_footprint(w, d, f),
                   coverage_cap |-> coverage_cap(w, d, f),
                   max_footprint |-> max_footprint(w, d, f)],
              intensity_caps |->
                  [floor_area_ratio |-> far(f),
                   max_floor_area_by_far |-> max_floor_area_by_far(w, d, f),
                   lot_coverage_max |-> lot_coverage_max(f)],
              height_caps |->
                  [max_height_ft |-> max_height_ft(f),
                   max_stories |-> max_stories(f),
                   est_max_stories_from_height |-> est_max_stories_from_height(f)],
              \* locals of the handler that the response does not carry
              locals |-> [buildable_width |-> buildable_width(w, f),
                          buildable_depth |-> buildable_depth(d, f)],
              facts |-> f,
              sources |-> Sources(ds, EnvelopeDocs)]

(***************************************************************************)
(* app/api_backup.py: go_no_go                                             *)
(***************************************************************************)
ReasonProhibited == "Proposed use appears prohibited in district"
ReasonByRight == "Proposed use appears permitted by right"
ReasonConditional == "Proposed use likely requires special/conditional approval"
ReasonUnclear == "Use permission unclear from code snippets"
ReasonSetbacks == "Setbacks consume lot; no buildable footprint"

\* truth value of a decoded value in "value or []"
TruthyValue(v) ==
    CASE v.t = "null" -> FALSE
      [] v.t \in {"bool", "int", "float"} -> v.n # 0
      [] v.t = "nan" -> TRUE
      [] v.t = "str" -> v.s # <<>>
      [] v.t = "list" -> v.xs # <<>>
      [] v.t = "dict" -> v.ks # <<>>

\* [u.lower() for u in (value or [])]: [err, xs].  A list gives its items, a
\* str its characters, a dict its keys; a number cannot be iterated and an
\* item that is no str has no lower(): both raise
LoweredUses(v) ==
    IF ~TruthyValue(v) THEN [err |-> FALSE, xs |-> <<>>]
    ELSE CASE v.t = "list" ->
                IF \A i \in 1..Len(v.xs) : v.xs[i].t = "str"
                THEN [err |-> FALSE, xs |-> [i \in 1..Len(v.xs) |-> Lower(v.xs[i].s)]]
                ELSE [err |-> TRUE, xs |-> <<>>]
           [] v.t = "str" ->
                [err |-> FALSE, xs |-> [i \in 1..Len(v.s) |-> Lower(<<v.s[i]>>)]]
           [] v.t = "dict" ->
                [err |-> FALSE, xs |-> [i \in 1..Len(v.ks) |-> Lower(v.ks[i])]]
           [] OTHER -> [err |-> TRUE, xs |-> <<>>]

\* any(pu in u for u in uses)
AnyMatch(pu, uses) == \E i \in 1..Len(uses) : IsSubstring(pu, uses[i])

\* UseRating with the by-right list looked at before the prohibited list
UseRating_ByRightFirst(pu, uses_prohibited, uses_by_right, uses_conditional) ==
    IF AnyMatch(pu, uses_by_right)
    THEN [rating |-> "Go", reason |-> ReasonByRight]
    ELSE IF AnyMatch(pu, uses_prohibited)
    THEN [rating |-> "No-Go", reason |-> ReasonProhibited]
    ELSE IF AnyMatch(pu, uses_conditional)
    THEN [rating |-> "Caution", reason |-> ReasonConditional]
    ELSE [rating |-> "Caution", reason |-> ReasonUnclear]

\* the if / elif / elif / else over the three lists
UseRating(pu, uses_prohibited, uses_by_right, uses_conditional) ==
    IF AnyMatch(pu, uses_prohibited)
    THEN [rating |-> "No-Go", reason |-> ReasonProhibited]
    ELSE IF AnyMatch(pu, uses_by_right)
    THEN [rating |-> "Go", reason |-> ReasonByRight]
    ELSE IF AnyMatch(pu, uses_conditional)
    THEN [rating |-> "Caution", reason |-> ReasonConditional]
    ELSE [rating |-> "Caution", reason |-> ReasonUnclear]

\* the dimensional sanity check: lot dims given, n() of the three setbacks
\* not None, and bw <= 0 or bd <= 0
SetbacksConsumeLot(w, d, f) ==
    LET fr == n(Get(f, K("front_setback_ft")))
        sd == n(Get(f, K("side_setback_ft")))
        rr == n(Get(f, K("rear_setback_ft")))
    IN  /\ Truthy(w) /\ Truthy(d)
        /\ sd.some /\ fr.some /\ rr.some
        /\ LET bw == FSub(w, FMul(FloatOf(2), sd))
               bd == FSub(d, FAdd(fr, rr))
           IN  FLe(bw, Zero) \/ FLe(bd, Zero)

GoNoGoDocs == 5

\* go_no_go that reports the permitted uses as it lowered them
go_no_go_LoweredFacts(r, f, ds) ==
    IF ~IsDict(f) THEN ServerError("Go/No-Go failed")
    ELSE LET up == LoweredUses(Get(f, K("prohibited_uses")))
             ur == LoweredUses(Get(f, K("permitted_uses")))
             uc == LoweredUses(Get(f, K("conditional_uses")))
             use == UseRating(Lower(r.proposed_use), up.xs, ur.xs, uc.xs)
             hit == SetbacksConsumeLot(r.lot_width_ft, r.lot_depth_ft, f)
             lowered == [k \in DOMAIN f.m |->
                            IF k = K("permitted_uses")
                            THEN JList([i \in 1..Len(ur.xs) |-> JStr(ur.xs[i])])
                            ELSE f.m[k]]
         IN  IF up.err \/ ur.err \/ uc.err THEN ServerError("Go/No-Go failed")
             ELSE [status |-> 200,
                   proposed_use |-> r.proposed_use,
                   rating |-> IF hit THEN "No-Go" ELSE use.rating,
                   reasons |-> IF hit THEN <<use.reason, ReasonSetbacks>> ELSE <<use.reason>>,
                   facts |-> [f EXCEPT !.m = lowered],
                   sources |-> Sources(ds, GoNoGoDocs)]

go_no_go(r, f, ds) ==
    IF ~IsDict(f) THEN ServerError("Go/No-Go failed")
    ELSE LET up == LoweredUses(Get(f, K("prohibited_uses")))
             ur == LoweredUses(Get(f, K("permitted_uses")))
             uc == LoweredUses(Get(f, K("conditional_uses")))
             use == UseRating(Lower(r.proposed_use), up.xs, ur.xs, uc.xs)
             hit == SetbacksConsumeLot(r.lot_width_ft, r.lot_depth_ft, f)
         IN  IF up.err \/ ur.err \/ uc.err THEN ServerError("Go/No-Go failed")
             ELSE [status |-> 200,
                   proposed_use |-> r.proposed_use,
                   rating |-> IF hit THEN "No-Go" ELSE use.rating,
                   reasons |-> IF hit THEN <<use.reason, ReasonSetbacks>> ELSE <<use.reason>>,
                   facts |-> f,
                   sources |-> Sources(ds, GoNoGoDocs)]

(***************************************************************************)
(* app/api_backup.py: zoning_snapshot                                      *)
(***************************************************************************)
\* facts.items() raises when facts is no dict, and nothing catches it
SnapshotDocs == 4

\* the response has the keys "facts" and "markdown"; the markdown is the
\* "Key Facts" lines followed by the "Sources" lines of docs[:4]
zoning_snapshot(r, f, ds) ==
    IF ~IsDict(f) THEN ServerError("Internal Server Error")
    ELSE [status |-> 200,
          facts |-> f,
          markdown |-> [key_facts |-> [i \in 1..Len(f.ks) |-> <<f.ks[i], f.m[f.ks[i]]>>],
                        sources |-> Sources(ds, SnapshotDocs)]]

(***************************************************************************)
(* Texts the generative model can return.                                  *)
(***************************************************************************)
Strings(alphabet, maxlen) == UNION { [1..k -> alphabet] : k \in 0..maxlen }

RECURSIVE JoinComma(_)
JoinComma(parts) ==
    IF parts = <<>> THEN <<>>
    ELSE IF Len(parts) = 1 THEN parts[1]
    ELSE parts[1] \o <<P(",")>> \o JoinComma(Tail(parts))

\* the members that are there: an absent field is the empty text
Present(parts) == SelectSeq(parts, LAMBDA x : x # <<>>)

ObjText(members) == <<P("{")>> \o JoinComma(Present(members)) \o <<P("}")>>
ListText(items) == <<P("[")>> \o JoinComma(items) \o <<P("]")>>
Member(key, val) == IF val = <<>> THEN <<>> ELSE <<S(K(key)), P(":")>> \o val
StrText(chars) == <<S(chars)>>
NumText(chars) == <<N(chars)>>
NullText == <<W(K("null"))>>
Absent == <<>>

\* free text, character by character
Ft10 == <<"1", "0", " ", "f", "t">>
Ft12 == <<"1", "2", " ", "f", "t">>
Ft20 == <<"2", "0", " ", "f", "t">>
Ft60 == <<"6", "0", " ", "f", "t">>
Sixty == <<"s", "i", "x", "t", "y">>
Pct60 == <<"6", "0", "%">>
Feet45 == <<"4", "5", " ", "f", "e", "e", "t">>
Bar == <<"B", "a", "r">>
Cafe == <<"c", "a", "f", "e">>

\* prose instead of JSON, JSON cut short, JSON wrapped in prose
NonJsonTexts ==
    { <<W(K("Sure")), W(K("here")), W(K("you")), W(K("go"))>>,
      <<W(K("Here")), P("{"), S(K("max_height_ft")), P(":"), N(<<"4", "5">>), P("}")>>,
      <<P("{"), S(K("max_height_ft")), P(":"), N(<<"4", "5">>)>>,
      <<P("{"), S(K("max_height_ft")), P(":"), N(<<"4", "5">>), P(","), P("}")>>,
      <<P("{"), S(K("max_height_ft")), P(":"), N(<<"4", "5", ".">>), P("}")>>,
      <<P("{"), S(K("max_height_ft")), P(":"), W(K("None")), P("}")>>,
      <<>> }

\* JSON that is no object
NonObjectTexts ==
    { ListText(<<>>), ListText(<<StrText(RawKey)>>), NumText(<<"4", "2">>),
      StrText(RawKey), NullText, <<W(K("true"))>>, <<W(K("NaN"))>>,
      ListText(<<ObjText(<<Member("max_height_ft", NumText(<<"4", "5">>))>>)>>) }

\* JSON objects off the schema
DeviantTexts ==
    { ObjText(<<Member("raw", StrText(Sixty))>>),
      ObjText(<<Member("raw", StrText(Sixty)), Member("max_height_ft", NumText(<<"4", "5">>))>>),
      ObjText(<<Member("prohibited_uses", StrText(Bar))>>),
      ObjText(<<Member("permitted_uses", NumText(<<"3">>))>>),
      ObjText(<<Member("conditional_uses", ListText(<<NullText>>))>>),
      ObjText(<<Member("prohibited_uses", ListText(<<ListText(<<StrText(Bar)>>)>>))>>),
      ObjText(<<Member("permitted_uses", ObjText(<<Member("Bar", NullText)>>))>>),
      ObjText(<<Member("side_setback_ft", ListText(<<NumText(<<"1", "0">>), StrText(Ft20)>>))>>),
      ObjText(<<Member("max_height_ft", NumText(<<"4", "5">>)),
                Member("max_height_ft", StrText(Feet45))>>),
      ObjText(<<Member("zoning", StrText(Bar))>>) }

\* JSON objects on the schema
ConformantTexts ==
    { ObjText(<<>>),
      ObjText(<<Member("zoning_district", StrText(K("MUL"))),
                Member("max_height_ft", NumText(<<"4", "5">>)),
                Member("front_setback_ft", NumText(<<"2", "0">>)),
                Member("side_setback_ft", NumText(<<"1", "0">>)),
                Member("rear_setback_ft", NumText(<<"2", "0">>)),
                Member("lot_coverage_max", NumText(<<"0", ".", "6">>)),
                Member("permitted_uses", ListText(<<StrText(Bar)>>))>>),
      ObjText(<<Member("zoning_district", StrText(K("CS"))),
                Member("side_setback_ft", NumText(<<"6", "0">>)),
                Member("front_setback_ft", NullText),
                Member("prohibited_uses", ListText(<<StrText(Bar), StrText(Cafe)>>))>>),
      ObjText(<<Member("front_setback_ft", NumText(<<"2", "0">>)),
                Member("side_setback_ft", StrText(Ft10)),
                Member("rear_setback_ft", NumText(<<"2", "0">>)),
                Member("lot_coverage_max", NumText(<<"6", "0">>)),
                Member("permitted_uses", ListText(<<StrText(Bar)>>))>>) }

SampleTexts == NonJsonTexts \cup NonObjectTexts \cup DeviantTexts \cup ConformantTexts

\* every text of at most MaxToks lexemes over these lexemes
Lexemes ==
    { P("{"), P("}"), P("["), P("]"), P(":"), P(","), S(RawKey), N(<<"1">>), W(K("Sure")) }

ShortTexts == Strings(Lexemes, MaxToks)

(***************************************************************************)
(* Requests.                                                               *)
(***************************************************************************)
NoRequest ==
    [endpoint |-> "none", proposed_use |-> <<>>, lot_width_ft |-> PyNone, lot_depth_ft |-> PyNone]

Request(endpoint, use, w, d) ==
    [endpoint |-> endpoint, proposed_use |-> use, lot_width_ft |-> w, lot_depth_ft |-> d]

(***************************************************************************)
(* State machine.  A run is one operation on one input: Init draws the     *)
(* input, the action is the operation from the model call on.              *)
(***************************************************************************)
NotCoerced == [num_done |-> FALSE, num |-> PyNone, n_done |-> FALSE, n |-> PyNone]

\* no startup and no build yet: the server is not up
NoRuns == [startups |-> 0, builds |-> 0, aborted |-> 0, up |-> FALSE]

NotSplit == [text |-> <<>>, cfg |-> SplitterConfig, chunks |-> <<>>, done |-> FALSE]

\* no handler invocation runs beside the one under way
NoCalls == <<>>

\* no map service is asked, no analysis prompt is built
NoGis == [kind |-> "none"]
NoPrompt == [made |-> FALSE, chunks |-> <<>>]

Offline ==
    /\ calls = NoCalls
    /\ gis = NoGis
    /\ lookups = <<>>
    /\ prompt = NoPrompt

Idle ==
    /\ facts = JNull
    /\ coerced = NotCoerced
    /\ resp = NoResponse
    /\ docs = <<>>
    /\ chunking = NotSplit
    /\ Offline
    /\ pc = "ready"

\* a collection of seven chunks of two PDF files and a text file
BuiltStore ==
    [marker |-> TRUE,
     collection |->
        <<Chunk(1, Path("data/zoning_pdfs", "title17.pdf"), Page(0), <<"a">>, 4),
          Chunk(2, Path("data/zoning_pdfs", "title17.pdf"), Page(0), <<"a">>, 7),
          Chunk(3, Path("data/zoning_pdfs", "title17.pdf"), Page(1), <<"a">>, 1),
          Chunk(4, Path("data/zoning_pdfs", "overlays.pdf"), Page(0), <<"a">>, 6),
          Chunk(5, Path("zoning_docs", "notes.txt"), NoPage, <<"a">>, 2),
          Chunk(6, Path("data/zoning_pdfs", "overlays.pdf"), Page(3), <<"a">>, 5),
          Chunk(7, Path("zoning_docs", "notes.txt"), NoPage, <<"a">>, 3)>>]

\* a built index and a model server that answers
Served ==
    /\ store = BuiltStore
    /\ ollama = Healthy
    /\ corpus = <<>>
    /\ runs = NoRuns

\* extract_facts on the text the model returned
ExtractFacts ==
    /\ pc = "ready" /\ req.endpoint = "none"
    /\ facts' = ExtractFactsCall(ollama, out).v
    /\ pc' = IF ExtractFactsCall(ollama, out).raised THEN "raised" ELSE "done"
    /\ ollama' = Generated(ollama)
    /\ UNCHANGED <<req, out, arg, coerced, resp, store, docs, corpus, runs, chunking, calls,
                   gis, lookups, prompt>>

\* the opening of a handler: get_retriever(), get_relevant_documents(query)
\* with the query embedded by the model server, extract_facts(snippets).
\* A failing embedding raises before extract_facts is reached
Retrieved(o, st) == IF o.embed_fails THEN <<>> ELSE get_relevant_documents(st)

Extracted(o, text) == IF o.embed_fails THEN Raised ELSE ExtractFactsCall(o, text)

AfterOpening(o) == IF o.embed_fails THEN o ELSE Generated(o)

\* POST /zoning/snapshot: nothing catches what the opening raises
ZoningSnapshot ==
    /\ pc = "ready" /\ req.endpoint = "/zoning/snapshot"
    /\ store' = get_retriever(store)
    /\ docs' = Retrieved(ollama, store')
    /\ ollama' = AfterOpening(ollama)
    /\ facts' = Extracted(ollama, out).v
    /\ resp' = IF Extracted(ollama, out).raised THEN ServerError("Internal Server Error")
               ELSE zoning_snapshot(req, facts', docs')
    /\ pc' = "done"
    /\ UNCHANGED <<req, out, arg, coerced, corpus, runs, chunking, calls, gis, lookups, prompt>>

\* POST /zoning/envelope-calc
ZoningEnvelopeCalc ==
    /\ pc = "ready" /\ req.endpoint = "/zoning/envelope-calc"
    /\ store' = get_retriever(store)
    /\ docs' = Retrieved(ollama, store')
    /\ ollama' = AfterOpening(ollama)
    /\ facts' = Extracted(ollama, out).v
    /\ resp' = IF Extracted(ollama, out).raised THEN ServerError("Envelope calc failed")
               ELSE zoning_envelope_calc(req, facts', docs')
    /\ pc' = "done"
    /\ UNCHANGED <<req, out, arg, coerced, corpus, runs, chunking, calls, gis, lookups, prompt>>

\* POST /zoning/go-no-go
GoNoGo ==
    /\ pc = "ready" /\ req.endpoint = "/zoning/go-no-go"
    /\ store' = get_retriever(store)
    /\ docs' = Retrieved(ollama, store')
    /\ ollama' = AfterOpening(ollama)
    /\ facts' = Extracted(ollama, out).v
    /\ resp' = IF Extracted(ollama, out).raised THEN ServerError("Go/No-Go failed")
               ELSE go_no_go(req, facts', docs')
    /\ pc' = "done"
    /\ UNCHANGED <<req, out, arg, coerced, corpus, runs, chunking, calls, gis, lookups, prompt>>

\* build_or_load_vectordb() called once more
Build ==
    /\ runs.builds < MaxBuilds
    /\ LET b == build_or_load_vectordb(store, corpus, ollama)
       IN  /\ store' = b.store
           /\ runs' = [runs EXCEPT !.builds = @ + 1,
                                   !.aborted = @ + (IF b.raised THEN 1 ELSE 0)]
    /\ UNCHANGED <<req, out, arg, facts, coerced, resp, pc, ollama, docs, corpus, chunking, calls,
                   gis, lookups, prompt>>

\* the server starts: on_startup(); the server is up when it did not raise
Startup ==
    /\ runs.startups < MaxStartups
    /\ LET b == on_startup(store, corpus, ollama)
       IN  /\ store' = b.store
           /\ runs' = [startups |-> runs.startups + 1,
                       builds |-> runs.builds + (IF b.built THEN 1 ELSE 0),
                       aborted |-> runs.aborted + (IF b.raised THEN 1 ELSE 0),
                       up |-> ~b.raised]
    /\ UNCHANGED <<req, out, arg, facts, coerced, resp, pc, ollama, docs, corpus, chunking, calls,
                   gis, lookups, prompt>>

\* POST /zoning/go-no-go to a server that is up
ServeGoNoGo == runs.up /\ GoNoGo

\* splitter.split_text on the text of one document
SplitDocument ==
    /\ ~chunking.done
    /\ chunking' = [chunking EXCEPT !.chunks = split_text(chunking.text, chunking.cfg),
                                    !.done = TRUE]
    /\ UNCHANGED <<req, out, arg, facts, coerced, resp, pc, store, ollama, docs, corpus, runs, calls,
                   gis, lookups, prompt>>

\* num(arg), as zoning_envelope_calc calls it on a fact value
CoerceNum ==
    /\ ~coerced.num_done
    /\ coerced' = [coerced EXCEPT !.num_done = TRUE, !.num = num(arg)]
    /\ pc' = IF coerced.n_done THEN "done" ELSE "ready"
    /\ UNCHANGED <<req, out, arg, facts, resp, store, ollama, docs, corpus, runs, chunking, calls,
                   gis, lookups, prompt>>

\* n(arg), as go_no_go calls it on a setback
CoerceN ==
    /\ ~coerced.n_done
    /\ coerced' = [coerced EXCEPT !.n_done = TRUE, !.n = n(arg)]
    /\ pc' = IF coerced.num_done THEN "done" ELSE "ready"
    /\ UNCHANGED <<req, out, arg, facts, resp, store, ollama, docs, corpus, runs, chunking, calls,
                   gis, lookups, prompt>>

(***************************************************************************)
(* The three handlers on the texts a model returns: JSON on the schema,    *)
(* JSON off it, JSON that is no object, and text that is no JSON.          *)
(***************************************************************************)
PipelineRequests ==
    { Request("/zoning/snapshot", <<>>, PyNone, PyNone) }
    \cup { Request("/zoning/envelope-calc", <<>>, FloatOf(100), FloatOf(d)) : d \in {150, 30} }
    \cup { Request("/zoning/go-no-go", u, w, FloatOf(150)) :
              u \in {Bar, Cafe, <<"a">>}, w \in {PyNone, FloatOf(100)} }

Init ==
    /\ req \in PipelineRequests
    /\ out \in SampleTexts
    /\ arg = JNull
    /\ Idle
    /\ Served

Next == ZoningSnapshot \/ ZoningEnvelopeCalc \/ GoNoGo

Spec == Init /\ [][Next]_vars

(***************************************************************************)
(* extract_facts alone, on every short text and on the samples.            *)
(***************************************************************************)
InitExtract ==
    /\ req = NoRequest
    /\ out \in ShortTexts \cup SampleTexts
    /\ arg = JNull
    /\ Idle
    /\ Served

NextExtract == ExtractFacts

SpecExtract == InitExtract /\ [][NextExtract]_vars

(***************************************************************************)
(* The coercion helpers alone, on every short text and on sample values.   *)
(***************************************************************************)
TextChars == {"0", "1", "5", ".", "f", " ", "-"}

CoercionArgs ==
    { JStr(s) : s \in Strings(TextChars, MaxStrLen) \cup {Ft10, Ft12, Sixty, Pct60} }
    \cup { JNull, JInt(0), JInt(7), JInt(-5), JInt(60), JBool(TRUE), JBool(FALSE),
           JFloat([n |-> 15, d |-> 2]), JFloat([n |-> 0, d |-> 1]),
           JList(<<JInt(10), JStr(Ft20)>>), JList(<<>>) }

InitCoerce ==
    /\ req = NoRequest
    /\ out = <<>>
    /\ arg \in CoercionArgs
    /\ Idle
    /\ Served

NextCoerce == CoerceNum \/ CoerceN

SpecCoerce == InitCoerce /\ [][NextCoerce]_vars

(***************************************************************************)
(* zoning_envelope_calc alone, on fact records that carry the dimensional  *)
(* fields as numbers, as free text, or not at all.                         *)
(***************************************************************************)
EnvelopeTexts ==
    { ObjText(<<Member("front_setback_ft", fr), Member("side_setback_ft", sd),
                Member("rear_setback_ft", rr), Member("lot_coverage_max", cv),
                Member("floor_area_ratio", fa), Member("max_height_ft", ht)>>) :
        fr \in {Absent, NumText(<<"2", "0">>), StrText(Ft20)},
        sd \in {Absent, NumText(<<"1", "0">>), NumText(<<"6", "0">>), StrText(Ft10),
                NumText(<<"-", "1", "0">>)},
        rr \in {Absent, NumText(<<"2", "0">>), NumText(<<"2", "0", "0">>)},
        cv \in {Absent, NullText, NumText(<<"0">>), NumText(<<"0", ".", "4">>),
                NumText(<<"0", ".", "6">>), NumText(<<"1", ".", "5">>),
                NumText(<<"1", ".", "6">>), NumText(<<"6", "0">>), StrText(Pct60)},
        fa \in {Absent, NumText(<<"0">>), NumText(<<"2">>)},
        ht \in {Absent, NumText(<<"0">>), NumText(<<"4", "5">>), StrText(Feet45)} }

\* EnvelopeCalcRequest: lot_width_ft and lot_depth_ft are floats > 0
EnvelopeRequests ==
    { Request("/zoning/envelope-calc", <<>>, FloatOf(100), FloatOf(150)),
      Request("/zoning/envelope-calc", <<>>, FloatOf(50), FloatOf(30)) }

InitEnvelope ==
    /\ req \in EnvelopeRequests
    /\ out \in EnvelopeTexts
    /\ arg = JNull
    /\ Idle
    /\ Served

NextEnvelope == ZoningEnvelopeCalc

SpecEnvelope == InitEnvelope /\ [][NextEnvelope]_vars

(***************************************************************************)
(* go_no_go alone, on fact records that carry use lists and setbacks.      *)
(***************************************************************************)
UseListTexts ==
    {Absent, NullText}
    \cup { ListText(items) : items \in Strings({StrText(Bar), StrText(Cafe)}, MaxUses) }

\* <<front, side, rear>>
SetbackTexts ==
    { <<Absent, Absent, Absent>>,
      <<NumText(<<"2", "0">>), NumText(<<"1", "0">>), NumText(<<"2", "0">>)>>,
      <<NumText(<<"2", "0">>), NumText(<<"6", "0">>), NumText(<<"2", "0">>)>>,
      <<NumText(<<"2", "0">>), NumText(<<"5", "0">>), NumText(<<"2", "0">>)>>,
      <<NumText(<<"8", "0">>), NumText(<<"1", "0">>), NumText(<<"8", "0">>)>>,
      <<NumText(<<"2", "0">>), NumText(<<"6", "0">>), Absent>>,
      <<StrText(<<"2", "0">>), StrText(<<"6", "0">>), StrText(<<"2", "0">>)>>,
      <<StrText(Ft20), StrText(Ft60), StrText(Ft20)>> }

GoNoGoTexts ==
    { ObjText(<<Member("prohibited_uses", up), Member("permitted_uses", ur),
                Member("conditional_uses", uc), Member("front_setback_ft", sb[1]),
                Member("side_setback_ft", sb[2]), Member("rear_setback_ft", sb[3])>>) :
        up \in UseListTexts, ur \in UseListTexts, uc \in UseListTexts, sb \in SetbackTexts }

\* GoNoGoRequest: the lot dimensions are optional floats, any value
GoNoGoRequests ==
    { Request("/zoning/go-no-go", u, l[1], l[2]) :
        u \in {<<"B", "A", "R">>, <<"a">>, <<"z", "o", "o">>},
        l \in { <<PyNone, PyNone>>, <<FloatOf(100), FloatOf(150)>>,
                <<FloatOf(0), FloatOf(150)>> } }

InitGoNoGo ==
    /\ req \in GoNoGoRequests
    /\ out \in GoNoGoTexts
    /\ arg = JNull
    /\ Idle
    /\ Served

NextGoNoGo == GoNoGo

SpecGoNoGo == InitGoNoGo /\ [][NextGoNoGo]_vars

(***************************************************************************)
(* The handlers from get_retriever on: with and without a built index,     *)
(* with the model server answering or failing.                             *)
(***************************************************************************)
\* the scores of the chunks of a collection, in the order they were added
ServedScores ==
    { <<>>, <<5>>, <<1, 2, 3>>, <<3, 1, 2>>, <<4, 7, 1, 6, 2, 5, 3>>,
      <<1, 2, 3, 4, 5, 6, 7>>, <<7, 6, 5, 4, 3, 2, 1>> }

\* a collection with these scores: a text file's chunk in every third place
Scored(scores) ==
    [i \in 1..Len(scores) |->
        IF i % 3 = 0
        THEN Chunk(i, Path("zoning_docs", "notes.txt"), NoPage, <<"a">>, scores[i])
        ELSE Chunk(i, Path("data/zoning_pdfs", "title17.pdf"), Page(i \div 2), <<"a">>, scores[i])]

ServedStores ==
    {NoStore} \cup { [marker |-> TRUE, collection |-> Scored(sc)] : sc \in ServedScores }

ServedTexts ==
    { ObjText(<<>>),
      ObjText(<<Member("zoning_district", StrText(K("MUL"))),
                Member("side_setback_ft", NumText(<<"1", "0">>)),
                Member("permitted_uses", ListText(<<StrText(Bar)>>))>>),
      <<W(K("Sure")), W(K("here")), W(K("you")), W(K("go"))>>,
      ListText(<<>>) }

ServedRequests ==
    { NoRequest,
      Request("/zoning/snapshot", <<>>, PyNone, PyNone),
      Request("/zoning/envelope-calc", <<>>, FloatOf(100), FloatOf(150)),
      Request("/zoning/go-no-go", Bar, FloatOf(100), FloatOf(150)) }

InitServe ==
    /\ req \in ServedRequests
    /\ out \in ServedTexts
    /\ arg = JNull
    /\ Idle
    /\ store \in ServedStores
    /\ ollama \in [embed_fails : BOOLEAN, llm_fails : BOOLEAN, llm_calls : {0}]
    /\ corpus = <<>>
    /\ runs = NoRuns

NextServe == ExtractFacts \/ ZoningSnapshot \/ ZoningEnvelopeCalc \/ GoNoGo

SpecServe == InitServe /\ [][NextServe]_vars

(***************************************************************************)
(* The splitter alone, on every short text of letters, blanks and line     *)
(* breaks, with sizes and overlaps scaled down to the length of the texts. *)
(***************************************************************************)
SplitTexts == Strings({"a", SP, NL}, MaxTextLen)

SplitConfigs ==
    { [chunk_size |-> 3, chunk_overlap |-> 1],
      [chunk_size |-> 4, chunk_overlap |-> 1],
      [chunk_size |-> 4, chunk_overlap |-> 2],
      SplitterConfig }

InitSplit ==
    /\ req = NoRequest
    /\ out = <<>>
    /\ arg = JNull
    /\ facts = JNull /\ coerced = NotCoerced /\ resp = NoResponse /\ docs = <<>>
    /\ pc = "ready"
    /\ Served
    /\ chunking \in [text : SplitTexts, cfg : SplitConfigs, chunks : {<<>>}, done : {FALSE}]
    /\ Offline

NextSplit == SplitDocument

SpecSplit == InitSplit /\ [][NextSplit]_vars

(***************************************************************************)
(* The index build over corpora of up to four files, each readable or not. *)
(***************************************************************************)
\* the files there can be: two PDF files, the second with a page that has
\* no text, and two text files
FilePool(readable) ==
    <<File(Path(DOC_DIR, "title17.pdf"), "pdf", readable[1],
           << <<"a", SP, "a">>, <<"a", NL, NL, "a">> >>),
      File(Path(DOC_DIR, "overlays.pdf"), "pdf", readable[2], << <<"a">>, <<>> >>),
      File(Path(TXT_DIR, "notes.txt"), "txt", readable[3], << <<"a", "a">> >>),
      File(Path(TXT_DIR, "memo.txt"), "txt", readable[4], << <<SP, "a", NL>> >>)>>

\* every choice of files of the pool, each readable or not
Corpora ==
    { SelectSeq(FilePool(readable), LAMBDA f : present[f.path.base]) :
        readable \in [1..4 -> BOOLEAN],
        present \in [{"title17.pdf", "overlays.pdf", "notes.txt", "memo.txt"} -> BOOLEAN] }

InitBuild ==
    /\ req = NoRequest
    /\ out = <<>>
    /\ arg = JNull
    /\ Idle
    /\ store = NoStore
    /\ ollama \in [embed_fails : BOOLEAN, llm_fails : {FALSE}, llm_calls : {0}]
    /\ corpus \in Corpora
    /\ runs = NoRuns

NextBuild == Build

SpecBuild == InitBuild /\ [][NextBuild]_vars

(***************************************************************************)
(* Server startups, with a request in between, from a store that is       *)
(* missing or was built before.                                            *)
(***************************************************************************)
InitStartup ==
    /\ req = Request("/zoning/go-no-go", Bar, FloatOf(100), FloatOf(150))
    /\ out = ObjText(<<>>)
    /\ arg = JNull
    /\ Idle
    /\ store \in {NoStore, BuiltStore}
    /\ ollama \in [embed_fails : BOOLEAN, llm_fails : {FALSE}, llm_calls : {0}]
    /\ corpus \in Corpora
    /\ runs = NoRuns

NextStartup == Startup \/ ServeGoNoGo

SpecStartup == InitStartup /\ [][NextStartup]_vars

(***************************************************************************)
(* Handler invocations side by side.  The server runs each request in a    *)
(* thread of its pool; a handler keeps req, docs, facts and its results in *)
(* local variables, and shares with the others the store on disk and the   *)
(* model server.  An invocation is preempted at its calls to them, so its  *)
(* steps are the retrieval, extract_facts, and the derivation.             *)
(***************************************************************************)
Invocations == 1..MaxCalls

\* the similarity of a chunk to the query f"{req.address}: ...": each
\* address ranks the chunks of the collection in an order of its own
Similarity(c, address) == IF address = "here" THEN c.score ELSE (3 * c.score) % 8

\* the collection as the embedded query of this address scores it
Embedded(st, address) ==
    [st EXCEPT !.collection =
        [i \in DOMAIN st.collection |->
            [st.collection[i] EXCEPT !.score = Similarity(st.collection[i], address)]]]

\* a frame of module-level variables, which every invocation would share
Locals_Shared(cs, i) == cs[1]

\* the frame of invocation i: the local variables of its handler
Locals(cs, i) == cs[i]

Frame(r, address, text) ==
    [req |-> r, address |-> address, out |-> text, docs |-> <<>>, facts |-> JNull,
     resp |-> NoResponse, pc |-> "ready"]

\* the rest of the handler of endpoint r.endpoint, from the facts on
Derived(r, f, ds) ==
    IF r.endpoint = "/zoning/envelope-calc" THEN zoning_envelope_calc(r, f, ds)
    ELSE go_no_go(r, f, ds)

\* retriever = get_retriever(); docs = retriever.get_relevant_documents(...)
Retrieve(i) ==
    /\ calls[i].pc = "ready"
    /\ store' = get_retriever(store)
    /\ calls' = [calls EXCEPT
                    ![i].docs = get_relevant_documents(
                                    Embedded(store', Locals(calls, i).address)),
                    ![i].pc = "retrieved"]
    /\ UNCHANGED <<req, out, arg, facts, coerced, resp, pc, ollama, docs, corpus, runs,
                   chunking, gis, lookups, prompt>>

\* facts = extract_facts(snippets)
Extract(i) ==
    /\ calls[i].pc = "retrieved"
    /\ ollama' = Generated(ollama)
    /\ calls' = [calls EXCEPT
                    ![i].facts = ExtractFactsCall(ollama, Locals(calls, i).out).v,
                    ![i].pc = "extracted"]
    /\ UNCHANGED <<req, out, arg, facts, coerced, resp, pc, store, docs, corpus, runs,
                   chunking, gis, lookups, prompt>>

\* the coercions, the derivations and the response
Derive(i) ==
    /\ calls[i].pc = "extracted"
    /\ calls' = [calls EXCEPT
                    ![i].resp = Derived(Locals(calls, i).req, Locals(calls, i).facts,
                                        Locals(calls, i).docs),
                    ![i].pc = "done"]
    /\ UNCHANGED <<req, out, arg, facts, coerced, resp, pc, store, ollama, docs, corpus,
                   runs, chunking, gis, lookups, prompt>>

ConcurrentRequests ==
    { Request("/zoning/envelope-calc", <<>>, FloatOf(100), FloatOf(150)),
      Request("/zoning/go-no-go", Bar, FloatOf(100), FloatOf(150)) }

ConcurrentTexts ==
    { ObjText(<<Member("side_setback_ft", NumText(<<"6", "0">>)),
                Member("front_setback_ft", NumText(<<"2", "0">>)),
                Member("rear_setback_ft", NumText(<<"2", "0">>)),
                Member("prohibited_uses", ListText(<<StrText(Bar)>>))>>),
      ObjText(<<Member("lot_coverage_max", NumText(<<"6", "0">>)),
                Member("permitted_uses", ListText(<<StrText(Bar)>>))>>) }

Addresses == {"here", "there"}

\* a collection of more than k chunks, and one of fewer with two equal scores
ConcurrentStores == {BuiltStore, [marker |-> TRUE, collection |-> Scored(<<2, 1, 2>>)]}

InitConcurrent ==
    /\ req = NoRequest
    /\ out = <<>>
    /\ arg = JNull
    /\ facts = JNull /\ coerced = NotCoerced /\ resp = NoResponse /\ docs = <<>>
    /\ chunking = NotSplit
    /\ pc = "ready"
    /\ store \in ConcurrentStores
    /\ ollama = Healthy
    /\ corpus = <<>>
    /\ runs = NoRuns
    /\ gis = NoGis /\ lookups = <<>> /\ prompt = NoPrompt
    /\ calls \in [Invocations ->
                    { Frame(r, a, t) : r \in ConcurrentRequests, a \in Addresses,
                                       t \in ConcurrentTexts }]

NextConcurrent == \E i \in Invocations : Retrieve(i) \/ Extract(i) \/ Derive(i)

SpecConcurrent == InitConcurrent /\ [][NextConcurrent]_vars

(***************************************************************************)
(* app/tools.py: get_zoning_district.  The reply of the ArcGIS query is    *)
(* [ok, features]: ok is false when the request or the decoding raises,    *)
(* features are the attribute dicts of the features found.  Latitudes and  *)
(* longitudes are in hundredths of a degree.                               *)
(***************************************************************************)
CandidateFields ==
    <<"ZONE_DESC", "ZONING", "BASE_ZONING", "ZONE_CODE", "ZONE", "DISTRICT", "ZONING_CODE">>

Coordinates(lat, lon) == [lat |-> lat, lon |-> lon]

\* the fallback mock, chosen by bounding box
MockDistrict(c) ==
    IF 3615 <= c.lat /\ c.lat <= 3618 /\ -8680 <= c.lon /\ c.lon <= -8675 THEN JStr(K("MUL"))
    ELSE IF 3610 <= c.lat /\ c.lat <= 3620 /\ -8685 <= c.lon /\ c.lon <= -8670
         THEN JStr(K("CS"))
         ELSE JStr(K("RS"))

\* for key in [...]: if key in attrs and attrs[key]: the first such key from
\* place i on, or 0
RECURSIVE FirstField(_, _)
FirstField(attrs, i) ==
    IF i > Len(CandidateFields) THEN 0
    ELSE IF HasKey(attrs, K(CandidateFields[i])) /\ TruthyValue(attrs.m[K(CandidateFields[i])])
         THEN i
         ELSE FirstField(attrs, i + 1)

\* Python "a or b"
Or(a, b) == IF TruthyValue(a) THEN a ELSE b

get_zoning_district(c, reply) ==
    IF ~reply.ok \/ reply.features = <<>> THEN MockDistrict(c)
    ELSE LET attrs == reply.features[1]
             k == FirstField(attrs, 1)
         IN  IF k # 0 THEN JStr(RStrip(LStrip(PyStr(attrs.m[K(CandidateFields[k])]))))
             ELSE Or(Or(Get(attrs, K("ZONE_DESC")), Get(attrs, K("ZONING"))),
                     Get(attrs, K("ZONE")))

\* get_zoning_district on the coordinates and the reply of gis
GetZoningDistrict ==
    /\ pc = "ready" /\ gis.kind = "base zoning layer"
    /\ resp' = [district |-> get_zoning_district(gis.coordinates, gis.reply)]
    /\ pc' = "done"
    /\ UNCHANGED <<req, out, arg, facts, coerced, store, ollama, docs, corpus, runs, chunking,
                   calls, gis, lookups, prompt>>

\* the fields of a set among these, in their order
RECURSIVE FieldsAmong(_, _)
FieldsAmong(fields, held) ==
    IF fields = <<>> THEN <<>>
    ELSE (IF Head(fields) \in held THEN <<K(Head(fields))>> ELSE <<>>) \o FieldsAmong(Tail(fields), held)

Fields == { CandidateFields[i] : i \in 1..Len(CandidateFields) }

\* a feature whose candidate fields hold null or a district named after them
NamedAttributes ==
    { JDict(FieldsAmong(CandidateFields, held),
            [k \in { K(f) : f \in held } |-> IF k[1] \in nulls THEN JNull ELSE JStr(k)]) :
        held \in SUBSET Fields, nulls \in SUBSET {"ZONE_DESC", "ZONE"} }

\* features with a blank, an empty, a numeric value, or no candidate field
OddAttributes ==
    { JDict(<<K("ZONE_DESC")>>, K("ZONE_DESC") :> JStr(<<" ">>)),
      JDict(<<K("ZONE_DESC")>>, K("ZONE_DESC") :> JStr(<<" ", "R", "held", " ">>)),
      JDict(<<K("ZONE_DESC"), K("ZONING")>>,
            K("ZONE_DESC") :> JStr(<<>>) @@ K("ZONING") :> JStr(K("CS"))),
      JDict(<<K("ZONE")>>, K("ZONE") :> JInt(0)),
      JDict(<<K("ZONE_CODE")>>, K("ZONE_CODE") :> JInt(7)),
      JDict(<<K("OBJECTID")>>, K("OBJECTID") :> JInt(1)) }

Replies ==
    { [ok |-> FALSE, features |-> <<>>], [ok |-> TRUE, features |-> <<>>] }
    \cup { [ok |-> TRUE, features |-> <<a>>] : a \in NamedAttributes \cup OddAttributes }

\* downtown, elsewhere in the county, and outside both boxes
Places == { Coordinates(3616, -8678), Coordinates(3611, -8672), Coordinates(3630, -8690) }

InitDistrict ==
    /\ req = NoRequest
    /\ out = <<>>
    /\ arg = JNull
    /\ facts = JNull /\ coerced = NotCoerced /\ resp = NoResponse /\ docs = <<>>
    /\ chunking = NotSplit
    /\ pc = "ready"
    /\ Served
    /\ calls = NoCalls /\ lookups = <<>> /\ prompt = NoPrompt
    /\ gis \in [kind : {"base zoning layer"}, coordinates : Places, reply : Replies]

NextDistrict == GetZoningDistrict

SpecDistrict == InitDistrict /\ [][NextDistrict]_vars

(***************************************************************************)
(* src/integrations/metro: analyze_property and build_summary_stub.  gis   *)
(* holds, for each lookup of arcgis_client, whether it raises and what it  *)
(* returns; a dict is a function of its keys.  A step of analyze_property  *)
(* is one lookup with the statements up to the next one; resp is the       *)
(* result dict as built so far, and what the function returns at the end.  *)
(***************************************************************************)
\* d.get(key, default)
DictGet(d, key, default) == IF key \in DOMAIN d THEN d[key] ELSE default

\* str.upper() on the flood zone codes
Upper(z) ==
    CASE z = "ae" -> "AE" [] z = "a" -> "A" [] z = "ve" -> "VE" [] z = "fw" -> "FW"
      [] z = "x" -> "X" [] OTHER -> z

\* (f.get("FloodZone") or f.get("FLOODZONE") or "").upper(); a zone that
\* is missing or None reads as ""
FloodZoneOf(f) ==
    Upper(IF DictGet(f, "FloodZone", "") # "" THEN f["FloodZone"]
          ELSE DictGet(f, "FLOODZONE", ""))

\* the flood flags of build_summary_stub, in the order of the features
RECURSIVE FloodFlags(_)
FloodFlags(fs) ==
    IF fs = <<>> THEN <<>>
    ELSE (IF FloodZoneOf(Head(fs)) \in {"AE", "A", "VE", "FW"}
          THEN <<<<"Flood Zone", FloodZoneOf(Head(fs))>>>> ELSE <<>>)
         \o FloodFlags(Tail(fs))

\* _overlay_flags: an overlay is named by its code; the names that hold
\* HIST, CONSERVATION or NC raise the review flag
OverlayFlags(overlays) ==
    IF \E i \in 1..Len(overlays) : overlays[i] \in {"HIST", "NC", "CONSERVATION"}
    THEN <<<<"Historic/Conservation review likely">>>> ELSE <<>>

\* build_summary_stub(analysis): district, flags and overlays of the summary
\* (the lot area and the by-right notes are left out)
build_summary_stub(analysis) ==
    [district |-> DictGet(DictGet(analysis, "zoning", <<>>), "base", "")
     ,
     flags |-> OverlayFlags(DictGet(DictGet(analysis, "zoning", <<>>), "overlays", <<>>))
               \o FloodFlags(DictGet(DictGet(analysis, "constraints", <<>>),
                                     "flood_approved", <<>>)),
     overlays |-> DictGet(DictGet(analysis, "zoning", <<>>), "overlays", <<>>)]

\* result = {"metadata": {...}, "input": {"address": address}}
NewResult ==
    [metadata |-> [source |-> "Metro Nashville GIS Services"],
     input |-> [address |-> "100 Broadway"]]

\* except Exception as e: result["error"] = ...; status = "error"
Failed(result) ==
    [error |-> "Error analyzing property"]
        @@ [result EXCEPT !.metadata = [status |-> "error"] @@ @]

\* return {"error": message, **result}
Refused(message, result) == [error |-> message] @@ result

\* a test that never sends analyze_property back early
NotFound_Never(o) == FALSE

\* if not geo, if not parcel
NotFound(o) == ~o.found

\* what a lookup that must find something leaves: the error result, an
\* early return, or the result with its entry
Looked(o, message, result, entry) ==
    IF o.raises THEN Failed(result)
    ELSE IF NotFound(o) THEN Refused(message, result)
    ELSE entry @@ result

Goes(o) == ~o.raises /\ ~NotFound(o)

\* structured_result; its metadata is the dict of result, which gets its
\* status after structured_result is built
Structured(result) ==
    [input |-> result.input,
     parcel |-> result.parcel,
     zoning |-> result.zoning,
     constraints |-> [flood_approved |-> result.hazards.flood_approved,
                      flood_pending |-> result.hazards.flood_pending],
     context |-> result.context,
     dtc_docs |-> DictGet(result, "dtc_docs", <<>>),
     metadata |-> [status |-> "success"] @@ result.metadata,
     build_summary |-> build_summary_stub(result)]

\* Step 1: geo = geocode_address(...)
GeocodeAddress ==
    /\ pc = "ready" /\ gis.kind = "metro"
    /\ lookups' = Append(lookups, "geocode")
    /\ resp' = Looked(gis.geocode, "Address not found", NewResult, <<>>)
    /\ pc' = IF Goes(gis.geocode) THEN "parcel" ELSE "returned"
    /\ UNCHANGED <<req, out, arg, facts, coerced, store, ollama, docs, corpus, runs, chunking,
                   calls, gis, prompt>>

\* Step 2: parcel = get_parcel_at_point(...)
ParcelAtPoint ==
    /\ pc = "parcel"
    /\ lookups' = Append(lookups, "parcel")
    /\ resp' = Looked(gis.parcel, "No parcel found at the specified location", resp,
                      [parcel |-> [attributes |-> "parcel"]])
    /\ pc' = IF Goes(gis.parcel) THEN "base zoning" ELSE "returned"
    /\ UNCHANGED <<req, out, arg, facts, coerced, store, ollama, docs, corpus, runs, chunking,
                   calls, gis, prompt>>

\* Step 3: base_zoning = get_base_zoning(...)
BaseZoning ==
    /\ pc = "base zoning"
    /\ lookups' = Append(lookups, "base zoning")
    /\ resp' = IF gis.base_zoning.raises THEN Failed(resp) ELSE resp
    /\ pc' = IF gis.base_zoning.raises THEN "returned" ELSE "overlays"
    /\ UNCHANGED <<req, out, arg, facts, coerced, store, ollama, docs, corpus, runs, chunking,
                   calls, gis, prompt>>

\* overlays = get_zoning_overlays(...); result["zoning"] = {...}
ZoningOverlays ==
    /\ pc = "overlays"
    /\ lookups' = Append(lookups, "overlays")
    /\ resp' = IF gis.overlays.raises THEN Failed(resp)
               ELSE [zoning |-> [base |-> gis.base_zoning.v, overlays |-> gis.overlays.v]]
                        @@ resp
    /\ pc' = IF gis.overlays.raises THEN "returned" ELSE "flood approved"
    /\ UNCHANGED <<req, out, arg, facts, coerced, store, ollama, docs, corpus, runs, chunking,
                   calls, gis, prompt>>

\* Step 4: flood_approved = get_flood_hazards(METRO["FEMA_APPROVED"], parcel)
FloodApproved ==
    /\ pc = "flood approved"
    /\ lookups' = Append(lookups, "flood approved")
    /\ resp' = IF gis.flood_approved.raises THEN Failed(resp) ELSE resp
    /\ pc' = IF gis.flood_approved.raises THEN "returned" ELSE "flood pending"
    /\ UNCHANGED <<req, out, arg, facts, coerced, store, ollama, docs, corpus, runs, chunking,
                   calls, gis, prompt>>

\* flood_pending = get_flood_hazards(METRO["FEMA_PENDING"], parcel);
\* result["hazards"] = {...}
FloodPending ==
    /\ pc = "flood pending"
    /\ lookups' = Append(lookups, "flood pending")
    /\ resp' = IF gis.flood_pending.raises THEN Failed(resp)
               ELSE [hazards |-> [flood_approved |-> gis.flood_approved.v,
                                  flood_pending |-> gis.flood_pending.v]] @@ resp
    /\ pc' = IF gis.flood_pending.raises THEN "returned" ELSE "nearby cases"
    /\ UNCHANGED <<req, out, arg, facts, coerced, store, ollama, docs, corpus, runs, chunking,
                   calls, gis, prompt>>

\* the result with its context and, in the Downtown Code, its dtc_docs
Closed(result, cases, base) ==
    (IF base = "DTC" THEN [dtc_docs |-> [pdf |-> "DTC_PDF"]] ELSE <<>>)
        @@ [context |-> [nearby_development_cases |-> cases]] @@ result

\* Step 5: nearby_cases = get_nearby_cases(...), and the rest: context,
\* dtc_docs, disclaimers, summary, structured_result
NearbyCases ==
    /\ pc = "nearby cases"
    /\ lookups' = Append(lookups, "nearby cases")
    /\ resp' = IF gis.nearby_cases.raises THEN Failed(resp)
               ELSE Structured(Closed(resp, gis.nearby_cases.v, gis.base_zoning.v))
    /\ pc' = "returned"
    /\ UNCHANGED <<req, out, arg, facts, coerced, store, ollama, docs, corpus, runs, chunking,
                   calls, gis, prompt>>

Answer(v) == [raises |-> FALSE, found |-> TRUE, v |-> v]
Nothing == [raises |-> FALSE, found |-> FALSE, v |-> <<>>]
Failure == [raises |-> TRUE, found |-> FALSE, v |-> <<>>]

\* the flood features a layer can hold for the parcel
FloodFeatures ==
    { <<>>,
      <<[FloodZone |-> "AE"]>>,
      <<[FloodZone |-> "X"]>>,
      <<[FloodZone |-> "X"], [FloodZone |-> "VE"]>>,
      <<[FLOODZONE |-> "fw"]>> }

InitMetro ==
    /\ req = NoRequest
    /\ out = <<>>
    /\ arg = JNull
    /\ facts = JNull /\ coerced = NotCoerced /\ resp = NoResponse /\ docs = <<>>
    /\ chunking = NotSplit
    /\ pc = "ready"
    /\ Served
    /\ calls = NoCalls /\ lookups = <<>> /\ prompt = NoPrompt
    /\ gis \in [kind : {"metro"},
                geocode : {Answer("geo"), Nothing, Failure},
                parcel : {Answer("parcel"), Nothing, Failure},
                base_zoning : {Answer("MUL"), Answer("DTC"), Answer(""), Failure},
                overlays : {Answer(<<>>), Answer(<<"HIST">>), Failure},
                flood_approved : {Answer(f) : f \in FloodFeatures} \cup {Failure},
                flood_pending : {Answer(<<>>), Answer(<<[FloodZone |-> "A"]>>), Failure},
                nearby_cases : {Answer(<<>>), Failure}]

NextMetro ==
    \/ GeocodeAddress \/ ParcelAtPoint \/ BaseZoning \/ ZoningOverlays
    \/ FloodApproved \/ FloodPending \/ NearbyCases

SpecMetro == InitMetro /\ [][NextMetro]_vars

(***************************************************************************)
(* The handlers that answer with an analysis of the model: developer-      *)
(* analysis (app/api.py, app/api_backup.py), use-analysis, variance-       *)
(* analysis and overlays (app/api_backup.py), and /analyze                 *)
(* (fastapi_server.py).  A request is [endpoint, address, zoning_district];*)
(* an address that is "" is empty or missing.  gis holds what the geocoder *)
(* does, the reply of the base zoning layer, and what analyze_property     *)
(* returns.  prompt is what the analysis call of the model was given: the  *)
(* snippets of its context.                                                *)
(***************************************************************************)
HTTPException(status_code, detail) == [status |-> status_code, detail |-> detail]

\* the body of a handler raised exc, or returned v
Throws(exc) == [raised |-> TRUE, exc |-> exc, v |-> NoResponse]
Returns(v) == [raised |-> FALSE, exc |-> NoResponse, v |-> v]

\* try: body / except Exception as e: raise HTTPException(500, prefix + str(e)).
\* HTTPException is an Exception: one raised in the body is caught as well
Guarded(body, prefix) == IF body.raised THEN HTTPException(500, prefix) ELSE body.v

\* tools.geocode_address: None when the geocoder finds nothing, the mock
\* coordinates of downtown when the request fails
geocode_address(g) ==
    CASE g.geocoder = "found" -> [some |-> TRUE, at |-> g.coordinates]
      [] g.geocoder = "empty" -> [some |-> FALSE, at |-> g.coordinates]
      [] g.geocoder = "error" -> [some |-> TRUE, at |-> Coordinates(3616, -8678)]

\* [d.page_content[:cut] for d in docs[:k]]
Snippets(ds, k, cut) == [i \in 1..Len(Take(ds, k)) |-> Take(ds[i].text, cut)]

\* a prompt whose template takes the context, and one whose template has
\* no place for it
WithContext(snippets) == [made |-> TRUE, chunks |-> snippets]
WithoutContext == [made |-> TRUE, chunks |-> <<>>]

\* what a handler leaves: its response, the store, the model server, the
\* chunks retrieved and the prompt of its analysis call
Left(rsp, st, o, ds, pr) ==
    [resp |-> rsp, store |-> st, ollama |-> o, docs |-> ds, prompt |-> pr]

\* a handler from get_retriever() on: retrieval, extract_facts for the
\* handlers that call it, the prompt, llm.invoke, the sources of docs[:k]
Analysed(st, o, text, k, pr, extracts, prefix, fields) ==
    IF o.embed_fails
    THEN Left(Guarded(Throws("embedding"), prefix), get_retriever(st), o, <<>>, NoPrompt)
    ELSE IF o.llm_fails
         THEN Left(Guarded(Throws("generation"), prefix), get_retriever(st), Generated(o),
                   get_relevant_documents(get_retriever(st)),
                   IF extracts THEN NoPrompt ELSE pr)
         ELSE Left(Guarded(Returns(
                       [status |-> 200,
                        analysis |-> <<"analysis">>,
                        facts |-> IF extracts THEN extract_facts(text) ELSE JNull,
                        sources |-> Sources(get_relevant_documents(get_retriever(st)), k)]
                       @@ fields), prefix),
                   get_retriever(st),
                   IF extracts THEN Generated(Generated(o)) ELSE Generated(o),
                   get_relevant_documents(get_retriever(st)), pr)

\* the handler left before get_retriever()
Rejected(exc, st, o, prefix) == Left(Guarded(Throws(exc), prefix), st, o, <<>>, NoPrompt)

\* POST /zoning/developer-analysis
developer_analysis(r, g, st, o, text) ==
    IF ~geocode_address(g).some
    THEN Rejected(HTTPException(400, "Could not geocode address"), st, o, "Analysis failed")
    ELSE IF ~TruthyValue(get_zoning_district(geocode_address(g).at, g.reply))
         THEN Rejected(HTTPException(400, "Could not determine zoning district"), st, o,
                       "Analysis failed")
         ELSE Analysed(st, o, text, 6,
                       WithContext(Snippets(get_relevant_documents(get_retriever(st)), 6, 1500)),
                       TRUE, "Analysis failed",
                       [zoning_district |->
                            get_zoning_district(geocode_address(g).at, g.reply)])

\* req.zoning_district, or the district of the geocoded address
DistrictOf(r, g) ==
    IF TruthyValue(r.zoning_district) THEN r.zoning_district
    ELSE IF geocode_address(g).some
         THEN get_zoning_district(geocode_address(g).at, g.reply)
         ELSE r.zoning_district

\* POST /zoning/use-analysis: context is joined and left out of the prompt
use_specific_analysis(r, g, st, o, text) ==
    IF ~TruthyValue(DistrictOf(r, g))
    THEN Rejected(HTTPException(400, "Could not determine zoning district"), st, o,
                  "Use analysis failed")
    ELSE Analysed(st, o, text, 4, WithoutContext, FALSE, "Use analysis failed",
                  [zoning_district |-> DistrictOf(r, g)])

\* POST /zoning/variance-analysis: context is joined and left out of the prompt
variance_analysis(r, g, st, o, text) ==
    Analysed(st, o, text, 4, WithoutContext, FALSE, "Variance analysis failed",
             [zoning_district |-> r.zoning_district])

\* POST /zoning/overlays
overlay_summaries(r, g, st, o, text) ==
    Analysed(st, o, text, 4,
             WithContext(Snippets(get_relevant_documents(get_retriever(st)), 4, 1000)),
             FALSE, "Overlay summary failed",
             [zoning_district |-> JNull])

\* POST /analyze: JSONResponse(content=analyze_property(address))
analyze_property_endpoint(r, g, st, o, text) ==
    IF r.address = ""
    THEN Rejected(HTTPException(400, "Address is required"), st, o, "400: Address is required")
    ELSE Left(Guarded(Returns([status |-> 200, content |-> g.analysis]), ""), st, o, <<>>,
              NoPrompt)

\* the handler of an endpoint
HandlerOf(endpoint, r, g, st, o, text) ==
    CASE endpoint = "/zoning/developer-analysis" -> developer_analysis(r, g, st, o, text)
      [] endpoint = "/zoning/use-analysis" -> use_specific_analysis(r, g, st, o, text)
      [] endpoint = "/zoning/variance-analysis" -> variance_analysis(r, g, st, o, text)
      [] endpoint = "/zoning/overlays" -> overlay_summaries(r, g, st, o, text)
      [] endpoint = "/analyze" -> analyze_property_endpoint(r, g, st, o, text)

\* one request to one of the handlers
Handle(endpoint) ==
    /\ pc = "ready" /\ gis.kind = "tools" /\ req.endpoint = endpoint
    /\ resp' = HandlerOf(endpoint, req, gis, store, ollama, out).resp
    /\ store' = HandlerOf(endpoint, req, gis, store, ollama, out).store
    /\ ollama' = HandlerOf(endpoint, req, gis, store, ollama, out).ollama
    /\ docs' = HandlerOf(endpoint, req, gis, store, ollama, out).docs
    /\ prompt' = HandlerOf(endpoint, req, gis, store, ollama, out).prompt
    /\ pc' = "done"
    /\ UNCHANGED <<req, out, arg, facts, coerced, corpus, runs, chunking, calls, gis, lookups>>

DeveloperAnalysis == Handle("/zoning/developer-analysis")
UseSpecificAnalysis == Handle("/zoning/use-analysis")
VarianceAnalysis == Handle("/zoning/variance-analysis")
OverlaySummaries == Handle("/zoning/overlays")
AnalyzePropertyEndpoint == Handle("/analyze")

AnalysisEndpoints ==
    { "/zoning/developer-analysis", "/zoning/use-analysis", "/zoning/variance-analysis",
      "/zoning/overlays", "/analyze" }

AnalysisRequests ==
    [endpoint : AnalysisEndpoints, address : {"", "100 Broadway"},
     zoning_district : {JNull, JStr(K("MUL"))}]

\* a chunk text of this many characters
Filled(len) == [i \in 1..len |-> "a"]

\* a collection with a chunk longer than the snippets of the overlays handler
LongStore ==
    [marker |-> TRUE,
     collection |->
        <<Chunk(1, Path("data/zoning_pdfs", "title17.pdf"), Page(0), Filled(1001), 2),
          Chunk(2, Path("zoning_docs", "notes.txt"), NoPage, <<"b">>, 1)>>]

InitAnalysis ==
    /\ req \in AnalysisRequests
    /\ out \in { ObjText(<<>>), <<W(K("Sure"))>> }
    /\ arg = JNull
    /\ facts = JNull /\ coerced = NotCoerced /\ resp = NoResponse /\ docs = <<>>
    /\ chunking = NotSplit
    /\ pc = "ready"
    /\ store \in {BuiltStore, LongStore}
    /\ ollama \in [embed_fails : BOOLEAN, llm_fails : BOOLEAN, llm_calls : {0}]
    /\ corpus = <<>>
    /\ runs = NoRuns
    /\ calls = NoCalls /\ lookups = <<>> /\ prompt = NoPrompt
    /\ gis \in [kind : {"tools"},
                geocoder : {"found", "empty", "error"},
                coordinates : {Coordinates(3611, -8672)},
                reply : { [ok |-> FALSE, features |-> <<>>],
                          [ok |-> TRUE,
                           features |-> <<JDict(<<K("ZONING")>>, K("ZONING") :> JStr(K("CS")))>>],
                          [ok |-> TRUE,
                           features |-> <<JDict(<<K("OBJECTID")>>, K("OBJECTID") :> JInt(1))>>] },
                analysis : { Refused("Address not found", NewResult), Failed(NewResult) }]

NextAnalysis ==
    \/ DeveloperAnalysis \/ UseSpecificAnalysis \/ VarianceAnalysis
    \/ OverlaySummaries \/ AnalyzePropertyEndpoint

SpecAnalysis == InitAnalysis /\ [][NextAnalysis]_vars

(***************************************************************************)
(* Properties.                                                             *)
(***************************************************************************)
Done(endpoint) == pc = "done" /\ req.endpoint = endpoint
Answered(endpoint) == Done(endpoint) /\ resp.status = 200

\* the entries of a use list of the fact record; no list when absent or null
UseEntries(key) ==
    LET v == Get(facts, K(key)) IN IF v.t = "list" THEN v.xs ELSE <<>>

\* the proposed use is, case aside, a substring of an entry of the list
UseMatches(key) ==
    \E i \in 1..Len(UseEntries(key)) :
        IsSubstring(Lower(req.proposed_use), Lower(UseEntries(key)[i].s))

ExpectedUseRating ==
    CASE UseMatches("prohibited_uses") -> <<"No-Go", ReasonProhibited>>
      [] ~UseMatches("prohibited_uses") /\ UseMatches("permitted_uses") ->
            <<"Go", ReasonByRight>>
      [] ~UseMatches("prohibited_uses") /\ ~UseMatches("permitted_uses")
            /\ UseMatches("conditional_uses") -> <<"Caution", ReasonConditional>>
      [] OTHER -> <<"Caution", ReasonUnclear>>

\* C1: go_no_go rates the use by the first rule that applies, prohibited, then
\* by right, then conditional, then unclear, matching the lower-cased proposed
\* use as a substring of the lower-cased entries; the first reason is always
\* that rule's, and the rating is that rule's unless the setback check
\* overrides it.  A use both by right and prohibited is No-Go; an absent list
\* is an empty list.
C1_UseRatingOrder ==
    Done("/zoning/go-no-go") =>
        /\ resp.status = 200
        /\ resp.reasons[1] = ExpectedUseRating[2]
        /\ (Len(resp.reasons) = 1 => resp.rating = ExpectedUseRating[1])

C1_Witness ==
    /\ Answered("/zoning/go-no-go")
    /\ UseMatches("prohibited_uses") /\ UseMatches("permitted_uses")
    /\ ~HasKey(facts, K("conditional_uses"))
    /\ resp.rating = "No-Go" /\ resp.reasons = <<ReasonProhibited>>

\* the coercion of the design, num, on a setback of the fact record
SetbackNum(key) == num(Get(facts, K(key)))

\* C2: whenever the lot width and depth are supplied, the three setbacks are
\* numerically available and width - 2*side <= 0 or depth - (front + rear) <= 0,
\* the rating is No-Go and the reasons are the use-based reason followed by
\* the 'setbacks consume lot' reason.
C2_SetbackOverride ==
    Answered("/zoning/go-no-go") =>
        LET w == req.lot_width_ft
            d == req.lot_depth_ft
            fr == SetbackNum("front_setback_ft")
            sd == SetbackNum("side_setback_ft")
            rr == SetbackNum("rear_setback_ft")
        IN  ( /\ w.some /\ d.some /\ fr.some /\ sd.some /\ rr.some
              /\ \/ FLe(FSub(w, FMul(FloatOf(2), sd)), Zero)
                 \/ FLe(FSub(d, FAdd(fr, rr)), Zero) )
            => /\ resp.rating = "No-Go"
               /\ resp.reasons = <<ExpectedUseRating[2], ReasonSetbacks>>

C4_RawKeyIffParseFailed ==
    Done("none") => (HasKey(facts, RawKey) <=> ~JsonLoads(out).ok)

\* C5: whatever text the model returns, extract_facts returns a mapping and
\* the snapshot, envelope-calc and go/no-go requests end with a result.
C5_NeverAborts ==
    (pc = "done" /\ req.endpoint # "none") => (IsDict(facts) /\ resp.status = 200)

HasDigit(s) == \E i \in 1..Len(s) : IsDigit(s[i])

\* r is the value of the first numeric substring of s: the leftmost maximal
\* run of digits s[i..j], with the fraction s[j+2..e] when a dot and a digit
\* follow it
IsFirstNumeric(s, r) ==
    \E i \in 1..Len(s), j \in 1..Len(s) :
        /\ i <= j
        /\ \A q \in 1..(i - 1) : ~IsDigit(s[q])
        /\ \A q \in i..j : IsDigit(s[q])
        /\ (j < Len(s) => ~IsDigit(s[j + 1]))
        /\ IF j + 2 <= Len(s) /\ s[j + 1] = "." /\ IsDigit(s[j + 2])
           THEN \E e \in (j + 2)..Len(s) :
                   /\ \A q \in (j + 2)..e : IsDigit(s[q])
                   /\ (e < Len(s) => ~IsDigit(s[e + 1]))
                   /\ r.some
                   /\ r.n * Pow10(e - j - 1) =
                        r.d * (DigitsVal(SubSeq(s, i, j)) * Pow10(e - j - 1)
                               + DigitsVal(SubSeq(s, j + 2, e)))
           ELSE r.some /\ r.n = r.d * DigitsVal(SubSeq(s, i, j))

\* C6: num returns a number as that float, a text as the value of its first
\* decimal-or-integer substring, and None - not zero - for an absent value and
\* for a text with no digit in it.
C6_NumCoercion ==
    coerced.num_done =>
        /\ (arg.t \in {"int", "float"} =>
                coerced.num = [some |-> TRUE, n |-> arg.n, d |-> arg.d])
        /\ (arg.t = "str" /\ HasDigit(arg.s) => IsFirstNumeric(arg.s, coerced.num))
        /\ (arg.t = "null" \/ (arg.t = "str" /\ ~HasDigit(arg.s)) => coerced.num = PyNone)

C6_Witness ==
    /\ coerced.num_done
    /\ arg = JStr(Ft12)
    /\ coerced.num = FloatOf(12)

\* C7: for a setback that is a number, a text or absent, go_no_go's n gives
\* what envelope-calc's num gives: available in both or in neither, with the
\* same value.
C7_SameCoercion ==
    (coerced.num_done /\ coerced.n_done /\ arg.t \in {"null", "int", "float", "str"})
        => coerced.n = coerced.num

\* what num makes of the fact record's lot_coverage_max
CoverageNum == num(Get(facts, K("lot_coverage_max")))

\* C8: an available coverage above 1.5 is divided by 100, one of at most 1.5,
\* 1.5 itself included, is left as it is.
C8_CoverageNormalization ==
    Answered("/zoning/envelope-calc") =>
        LET c == CoverageNum
            r == resp.intensity_caps.lot_coverage_max
        IN  IF ~c.some THEN r = PyNone
            ELSE IF 2 * c.n > 3 * c.d
                 THEN r.some /\ r.n * 100 * c.d = c.n * r.d
                 ELSE r = c

C8_Witness ==
    /\ Answered("/zoning/envelope-calc")
    /\ CoverageNum = FloatOf(60)
    /\ resp.intensity_caps.lot_coverage_max = [some |-> TRUE, n |-> 3, d |-> 5]

\* a coerced setback: 0 when num finds it unavailable
CoercedSetback(key) == IF SetbackNum(key).some THEN SetbackNum(key) ELSE Zero

AtLeastZero(x) == IF x.n > 0 THEN x ELSE Zero

\* C9: with the coerced setbacks, buildable width = max(W - 2*side, 0),
\* buildable depth = max(D - (front + rear), 0) and geometric footprint is
\* their product.
C9_EnvelopeArithmetic ==
    Answered("/zoning/envelope-calc") =>
        LET fr == CoercedSetback("front_setback_ft")
            sd == CoercedSetback("side_setback_ft")
            rr == CoercedSetback("rear_setback_ft")
            bw == AtLeastZero(FSub(req.lot_width_ft, FAdd(sd, sd)))
            bd == AtLeastZero(FSub(req.lot_depth_ft, FAdd(fr, rr)))
        IN  /\ resp.setbacks_ft = [front |-> fr, side |-> sd, rear |-> rr]
            /\ resp.locals.buildable_width = bw
            /\ resp.locals.buildable_depth = bd
            /\ resp.buildable_area_sqft.geometric_footprint = FMul(bw, bd)

C9_Witness ==
    /\ Answered("/zoning/envelope-calc")
    /\ req.lot_width_ft = FloatOf(100) /\ req.lot_depth_ft = FloatOf(150)
    /\ resp.setbacks_ft = [front |-> FloatOf(20), side |-> FloatOf(10), rear |-> FloatOf(20)]
    /\ resp.locals = [buildable_width |-> FloatOf(80), buildable_depth |-> FloatOf(110)]
    /\ resp.buildable_area_sqft.geometric_footprint = FloatOf(8800)

\* C10: the coverage cap is defined exactly when the coverage fraction is
\* available, for every fraction >= 0, and is then lot area * fraction;
\* max_footprint is min(geometric footprint, cap) when the cap is defined and
\* the geometric footprint otherwise.
C10_CoverageCap ==
    Answered("/zoning/envelope-calc") =>
        LET cov == resp.intensity_caps.lot_coverage_max
            cap == resp.buildable_area_sqft.coverage_cap
            geo == resp.buildable_area_sqft.geometric_footprint
            top == resp.buildable_area_sqft.max_footprint
        IN  /\ (cov.some /\ cov.n >= 0 =>
                    /\ cap = FMul(resp.lot.area_sqft, cov)
                    /\ top = FMin(geo, cap))
            /\ (~cov.some => cap = PyNone /\ top = geo)

\* C11: the floor area allowed by the floor-area ratio is defined exactly when
\* the ratio is available, for every ratio >= 0, and is then ratio * lot area;
\* it is undefined only when the ratio is unavailable.
C11_FarCap ==
    Answered("/zoning/envelope-calc") =>
        LET ratio == num(Get(facts, K("floor_area_ratio")))
            cap == resp.intensity_caps.max_floor_area_by_far
        IN  /\ resp.intensity_caps.floor_area_ratio = ratio
            /\ (ratio.some /\ ratio.n >= 0 =>
                    cap.some /\ cap = FMul(ratio, resp.lot.area_sqft))
            /\ (~ratio.some => cap = PyNone)

\* the integer k with FeetPerStory * k <= h < FeetPerStory * (k + 1)
IsStoriesOf(k, h) ==
    /\ k.some /\ k.d = 1
    /\ 12 * k.n * h.d <= h.n
    /\ h.n < 12 * (k.n + 1) * h.d

\* C12: the story estimate is defined exactly when the maximum height is
\* available and is then the integer floor(max_height_ft / 12); it is
\* undefined only when the maximum height is unavailable.
C12_StoriesFromHeight ==
    Answered("/zoning/envelope-calc") =>
        LET h == num(Get(facts, K("max_height_ft")))
            est == resp.height_caps.est_max_stories_from_height
        IN  /\ resp.height_caps.max_height_ft = h
            /\ (h.some /\ h.d > 0 => IsStoriesOf(est, h))
            /\ (~h.some => est = PyNone)

\* the keys of the use lists and of the dimensional fields
UseListKeys == { K("permitted_uses"), K("conditional_uses"), K("prohibited_uses") }

DimensionalKeys ==
    { K("front_setback_ft"), K("side_setback_ft"), K("rear_setback_ft"),
      K("max_height_ft"), K("max_stories"), K("lot_coverage_max"),
      K("floor_area_ratio") }

\* a fact record that has no use list and no dimensional field
Factless == IsDict(facts) /\ DOMAIN facts.m \cap (UseListKeys \cup DimensionalKeys) = {}

\* C13: on the raw-fallback record, and on any record with no use list and no
\* dimensional field, both derivations answer: go/no-go rates Caution with
\* the 'use permission unclear' reason alone, envelope-calc gives setbacks 0,
\* geometric footprint = max footprint = lot area, and no coverage cap, no
\* floor-area cap and no story estimate.
C13_FactlessDerivations ==
    /\ Done("/zoning/go-no-go") /\ Factless =>
            /\ resp.status = 200
            /\ resp.rating = "Caution"
            /\ resp.reasons = <<ReasonUnclear>>
    /\ Done("/zoning/envelope-calc") /\ Factless =>
            /\ resp.status = 200
            /\ resp.setbacks_ft = [front |-> Zero, side |-> Zero, rear |-> Zero]
            /\ resp.buildable_area_sqft.geometric_footprint = resp.lot.area_sqft
            /\ resp.buildable_area_sqft.max_footprint = resp.lot.area_sqft
            /\ resp.lot.area_sqft = FMul(req.lot_width_ft, req.lot_depth_ft)
            /\ resp.buildable_area_sqft.coverage_cap = PyNone
            /\ resp.intensity_caps.max_floor_area_by_far = PyNone
            /\ resp.height_caps.est_max_stories_from_height = PyNone

C13_Witness ==
    /\ Done("/zoning/envelope-calc")
    /\ ~JsonLoads(out).ok /\ facts = RawRecord(out)
    /\ resp.status = 200
    /\ resp.buildable_area_sqft.max_footprint = FloatOf(15000)
    /\ resp.buildable_area_sqft.coverage_cap = PyNone

\* how many of the retrieved chunks a handler puts into the prompt
UsedChunks ==
    LET k == IF req.endpoint = "/zoning/snapshot" THEN 4 ELSE 5
    IN  IF Len(docs) < k THEN Len(docs) ELSE k

\* C14: every successful response carries a 'sources' list with one
\* citation, origin and page, per retrieved chunk whose text went into the
\* prompt, in retrieval order.
C14_SourcesListed ==
    (pc = "done" /\ req.endpoint # "none" /\ resp.status = 200) =>
        /\ "sources" \in DOMAIN resp
        /\ Len(resp.sources) = UsedChunks
        /\ \A i \in 1..UsedChunks :
              resp.sources[i] = [source |-> docs[i].source.base, page |-> docs[i].page]

\* C15: extract_facts calls the generative model once, with no retry; when
\* that call raises there is no fallback record and the request fails.
C15_ModelFailurePropagates ==
    (pc \in {"done", "raised"} /\ ~ollama.embed_fails) =>
        /\ ollama.llm_calls = 1
        /\ ollama.llm_fails =>
              /\ facts = JNull
              /\ IF req.endpoint = "none" THEN pc = "raised" ELSE resp.status = 500

C15_Witness ==
    /\ Done("/zoning/go-no-go")
    /\ ollama = [embed_fails |-> FALSE, llm_fails |-> TRUE, llm_calls |-> 1]
    /\ facts = JNull
    /\ resp = ServerError("Go/No-Go failed")

\* C16: a request that retrieves when no index has been built fails, and
\* creates no index.
C16_NoIndexNotFound ==
    [][(~store.marker /\ pc = "ready" /\ pc' = "done" /\ req.endpoint # "none") =>
            (resp'.status # 200 /\ store' = store)]_vars

\* a file of the corpus whose text can be extracted and is not blank
Extractable(f) ==
    f.readable /\ \E i \in 1..Len(f.pages) : \E j \in 1..Len(f.pages[i]) :
                     ~IsWhitespace(f.pages[i][j])

IsIndexed(f) == \E i \in 1..Len(store.collection) : store.collection[i].source = f.path

\* C17: in an index build a file whose text cannot be extracted is skipped:
\* the build does not abort and every other file is loaded, chunked and
\* indexed.
C17_FailingDocumentSkipped ==
    (runs.builds >= 1 /\ ~ollama.embed_fails) =>
        /\ runs.aborted = 0
        /\ \A i \in 1..Len(corpus) : Extractable(corpus[i]) => IsIndexed(corpus[i])

\* the positions two chunks of a text share
Shared(a, b) == Cardinality((a.lo..a.hi) \cap (b.lo..b.hi))

HasNoWhitespace(text) == \A i \in 1..Len(text) : ~IsWhitespace(text[i])

Indexed == [i \in 1..Len(store.collection) |->
              Document(store.collection[i].source, store.collection[i].page,
                       store.collection[i].text)]

\* C19: after build_or_load_vectordb ran twice over the same files the
\* collection holds the chunks it holds after one run.
C19_RebuildIdempotent ==
    (runs.builds = 2 /\ runs.aborted = 0) =>
        Indexed = split_documents(LoadCorpus(corpus).docs, SplitterConfig)

\* C20: at a startup the index build runs exactly when the marker file is
\* missing at that moment; a startup that finds the marker file leaves the
\* store as it is.
C20_BuildIffNoMarker ==
    [][runs'.startups = runs.startups + 1 =>
          /\ runs'.builds = runs.builds + (IF store.marker THEN 0 ELSE 1)
          /\ store.marker => store' = store]_vars

C20_Witness ==
    /\ runs.startups = 3 /\ runs.builds = 1 /\ runs.aborted = 0
    /\ store.marker /\ Len(store.collection) = 5

\* what extract_facts returns for the text the model gave
Decoded == IF JsonLoads(out).ok THEN JsonLoads(out).v ELSE RawRecord(out)

\* C23: the 'facts' of an envelope-calc or go/no-go response is the record
\* extract_facts returned, as it returned it.
C23_FactsUntouched ==
    (Answered("/zoning/envelope-calc") \/ Answered("/zoning/go-no-go")) =>
        resp.facts = Decoded

C23_Witness ==
    /\ Answered("/zoning/envelope-calc")
    /\ Get(resp.facts, K("lot_coverage_max")) = JInt(60)
    /\ Get(resp.facts, K("side_setback_ft")) = JStr(Ft10)
    /\ resp.intensity_caps.lot_coverage_max = Float(Rat(3, 5))
    /\ resp.setbacks_ft.side = FloatOf(10)

\* C29: on a lot of positive width and depth,
\* 0 <= max_footprint <= geometric footprint <= lot area = width * depth.
C29_FootprintBounds ==
    (Answered("/zoning/envelope-calc") /\ FLt(Zero, req.lot_width_ft)
        /\ FLt(Zero, req.lot_depth_ft)) =>
        LET b == resp.buildable_area_sqft
        IN  /\ b.max_footprint.some /\ b.geometric_footprint.some
            /\ 0 <= b.max_footprint.n
            /\ b.max_footprint.n * b.geometric_footprint.d
                  <= b.geometric_footprint.n * b.max_footprint.d
            /\ b.geometric_footprint.n * req.lot_width_ft.d * req.lot_depth_ft.d
                  <= req.lot_width_ft.n * req.lot_depth_ft.n * b.geometric_footprint.d

\* C30: whenever envelope-calc computes buildable width 0 or buildable depth
\* 0 from the facts and the supplied lot, go/no-go on the same facts and lot
\* answers No-Go with the 'setbacks consume lot' reason.
C30_InfeasibilityAgrees ==
    (Answered("/zoning/go-no-go") /\ req.lot_width_ft.some /\ req.lot_depth_ft.some
        /\ FLt(Zero, req.lot_width_ft) /\ FLt(Zero, req.lot_depth_ft)
        /\ \/ buildable_width(req.lot_width_ft, facts) = Zero
           \/ buildable_depth(req.lot_depth_ft, facts) = Zero) =>
        /\ resp.rating = "No-Go"
        /\ \E i \in 1..Len(resp.reasons) : resp.reasons[i] = ReasonSetbacks

\* the chunks a retrieval for this address gives on the store as it stands
Ranked(address) == get_relevant_documents(Embedded(Chroma(store), address))

Alone(c) ==
    [docs |-> Ranked(c.address),
     facts |-> extract_facts(c.out),
     resp |-> Derived(c.req, extract_facts(c.out), Ranked(c.address))]

\* C22: however the steps of the invocations interleave, each one's chunks,
\* fact record and response (rating, reasons, envelope) are those its own
\* request produces alone, and a step changes the frame of one invocation
\* only.
C22_InvocationsIsolated ==
    /\ [](\A i \in DOMAIN calls :
            /\ calls[i].pc # "ready" => calls[i].docs = Alone(calls[i]).docs
            /\ calls[i].pc \in {"extracted", "done"} =>
                   calls[i].facts = Alone(calls[i]).facts
            /\ calls[i].pc = "done" => calls[i].resp = Alone(calls[i]).resp)
    /\ [][\A i, j \in DOMAIN calls :
            (i # j /\ calls'[i] # calls[i]) => calls'[j] = calls[j]]_vars

C22_Witness ==
    /\ DOMAIN calls # {}
    /\ \A i \in DOMAIN calls : calls[i].pc = "done"
    /\ \E i, j \in DOMAIN calls :
          /\ calls[i].req.endpoint = "/zoning/envelope-calc"
          /\ calls[j].req.endpoint = "/zoning/go-no-go"
          /\ calls[i].facts # calls[j].facts
          /\ calls[i].address # calls[j].address
          /\ calls[i].resp.locals.buildable_width = FloatOf(100)
          /\ calls[j].resp.rating = "No-Go"

\* the first candidate field of a feature that is present and not null, or 0
RECURSIVE FirstNonNull(_, _)
FirstNonNull(attrs, i) ==
    IF i > Len(CandidateFields) THEN 0
    ELSE IF HasKey(attrs, K(CandidateFields[i])) /\ attrs.m[K(CandidateFields[i])].t # "null"
         THEN i
         ELSE FirstNonNull(attrs, i + 1)

LayerSupplies ==
    /\ gis.reply.ok /\ gis.reply.features # <<>>
    /\ FirstNonNull(gis.reply.features[1], 1) # 0

\* C27: get_zoning_district returns a non-empty string whatever the
\* coordinates and the outcome of the query: the first present non-null
\* candidate field when the layer supplies one, the mock fallback of the
\* bounding box otherwise.
C27_DistrictAlways ==
    (pc = "done" /\ gis.kind = "base zoning layer") =>
        /\ resp.district.t = "str" /\ resp.district.s # <<>>
        /\ IF LayerSupplies
           THEN resp.district.s =
                    RStrip(LStrip(PyStr(gis.reply.features[1].m[
                        K(CandidateFields[FirstNonNull(gis.reply.features[1], 1)])])))
           ELSE resp.district = MockDistrict(gis.coordinates)

\* the lookups of analyze_property in the order of its code
LookupOrder ==
    <<"geocode", "parcel", "base zoning", "overlays", "flood approved", "flood pending",
      "nearby cases">>

\* the outcome the lookup of this name had
OutcomeOf(name) ==
    CASE name = "geocode" -> gis.geocode [] name = "parcel" -> gis.parcel
      [] name = "base zoning" -> gis.base_zoning [] name = "overlays" -> gis.overlays
      [] name = "flood approved" -> gis.flood_approved
      [] name = "flood pending" -> gis.flood_pending
      [] name = "nearby cases" -> gis.nearby_cases

SomeLookupRaised == \E i \in 1..Len(lookups) : OutcomeOf(lookups[i]).raises

Completed == pc = "returned" /\ lookups = LookupOrder /\ ~SomeLookupRaised

\* C25: analyze_property issues its lookups in the order geocode, parcel,
\* base zoning, overlays, flood layers, nearby cases and always returns: with
\* 'Address not found' and no later lookup when geocoding finds nothing, with
\* an error and no zoning, flood or case lookup when no parcel is found, with
\* an error and status 'error' when a lookup raises, with status 'success'
\* when the run completes.
C25_LookupOrder ==
    gis.kind = "metro" =>
        /\ Len(lookups) <= Len(LookupOrder)
        /\ lookups = SubSeq(LookupOrder, 1, Len(lookups))
        /\ pc = "returned" =>
            /\ (~gis.geocode.raises /\ ~gis.geocode.found) =>
                   resp.error = "Address not found" /\ lookups = <<"geocode">>
            /\ (Len(lookups) >= 2 /\ ~gis.parcel.raises /\ ~gis.parcel.found) =>
                   "error" \in DOMAIN resp /\ lookups = <<"geocode", "parcel">>
            /\ SomeLookupRaised =>
                   "error" \in DOMAIN resp /\ resp.metadata.status = "error"
            /\ Completed => resp.metadata.status = "success" /\ "error" \notin DOMAIN resp
        /\ (pc # "returned" /\ lookups # <<>>) =>
               /\ ~SomeLookupRaised
               /\ gis.geocode.found
               /\ Len(lookups) >= 2 => gis.parcel.found

C25_Witness ==
    /\ Completed
    /\ resp.metadata.status = "success"
    /\ resp.zoning.base = "DTC"

\* C26: when the parcel meets a feature of the approved flood layer whose
\* FloodZone is AE, A, VE or FW, the build summary of the returned result
\* lists 'Flood Zone <zone>' among its flags.
C26_FloodFlagged ==
    (gis.kind = "metro" /\ Completed) =>
        \A i \in 1..Len(gis.flood_approved.v) :
            LET z == DictGet(gis.flood_approved.v[i], "FloodZone", "")
            IN  z \in {"AE", "A", "VE", "FW"} =>
                    \E k \in 1..Len(resp.build_summary.flags) :
                        resp.build_summary.flags[k] = <<"Flood Zone", z>>

Handled(endpoint) == pc = "done" /\ gis.kind = "tools" /\ req.endpoint = endpoint

\* C24: a client error found inside a handler reaches the client as 400:
\* developer-analysis answers 400 'Could not geocode address' when geocoding
\* gives no coordinates and 400 'Could not determine zoning district' when
\* no district is found, /analyze answers 400 'Address is required' for a
\* request without address; 500 is kept for unexpected failures.
C24_ClientErrors ==
    /\ Handled("/zoning/developer-analysis") =>
          IF ~geocode_address(gis).some
          THEN resp = HTTPException(400, "Could not geocode address")
          ELSE ~TruthyValue(get_zoning_district(geocode_address(gis).at, gis.reply))
                   => resp = HTTPException(400, "Could not determine zoning district")
    /\ Handled("/analyze") =>
          (req.address = "" => resp = HTTPException(400, "Address is required"))
    /\ (pc = "done" /\ gis.kind = "tools" /\ resp.status = 500) =>
          ollama.embed_fails \/ ollama.llm_fails

\* the chunks a response cites: docs[:k] for its k sources
Cited == Take(docs, Len(resp.sources))

\* C28: in a response with a model-generated analysis and a sources list,
\* the text of every cited chunk was part of the prompt given to the model
\* call that produced the analysis.
C28_CitedChunksInPrompt ==
    (pc = "done" /\ gis.kind = "tools" /\ resp.status = 200
        /\ req.endpoint \in { "/zoning/developer-analysis", "/zoning/use-analysis",
                              "/zoning/variance-analysis", "/zoning/overlays" }) =>
        /\ prompt.made
        /\ \A i \in 1..Len(Cited) :
               /\ resp.sources[i] = Citation(docs[i])
               /\ \E k \in 1..Len(prompt.chunks) : prompt.chunks[k] = docs[i].text

====
